---- MODULE Spec2Model ----
(***************************************************************************)
(* Resilient LLM request executor of app/analysis/llm.py: provider         *)
(* settings, payload variants, the synchronous completion call             *)
(* (get_llm_analysis_detailed) and the streaming call                      *)
(* (iter_llm_analysis_stream).                                             *)
(*                                                                         *)
(* Text is a sequence of one-character strings, so that the normalisation  *)
(* (_soft_text_clean) is computed character by character as the regular    *)
(* expressions of the source compute it.                                   *)
(***************************************************************************)
EXTENDS Integers, Sequences, FiniteSets, TLC

\* Largest configured LLM_RETRIES value explored (0..MaxCfgRetries).
MaxCfgRetries == 2
\* Most lines read from streaming responses during one call.
MaxLines == 2

Max(a, b) == IF a >= b THEN a ELSE b

(***************************************************************************)
(* Text helpers                                                            *)
(***************************************************************************)
IsSpace(c) == c \in {" ", "\n", "\r"}

\* [a-zA-Z0-9_-]
IsLangChar(c) == c \in {"a", "b", "i", "_", "-"}

DropFirst(s, n) == SubSeq(s, n + 1, Len(s))

RECURSIVE Concat(_)
\* ''.join(collected)
Concat(parts) ==
    IF parts = <<>> THEN <<>> ELSE Head(parts) \o Concat(Tail(parts))

RECURSIVE ReplaceCR(_)
\* .replace('\r\n', '\n').replace('\r', '\n')
ReplaceCR(s) ==
    IF s = <<>> THEN <<>>
    ELSE IF Head(s) = "\r"
         THEN IF Len(s) >= 2 /\ s[2] = "\n"
              THEN <<"\n">> \o ReplaceCR(DropFirst(s, 2))
              ELSE <<"\n">> \o ReplaceCR(Tail(s))
         ELSE <<Head(s)>> \o ReplaceCR(Tail(s))

RECURSIVE LStrip(_)
LStrip(s) ==
    IF s # <<>> /\ IsSpace(Head(s)) THEN LStrip(Tail(s)) ELSE s

RECURSIVE RStrip(_)
RStrip(s) ==
    IF s # <<>> /\ IsSpace(s[Len(s)]) THEN RStrip(SubSeq(s, 1, Len(s) - 1)) ELSE s

\* str.strip()
Strip(s) == RStrip(LStrip(s))

\* Index of the first '>' of s at or after position 2, 0 when there is none.
FirstGt(s) ==
    LET js == {j \in 2..Len(s) : s[j] = ">"}
    IN  IF js = {} THEN 0 ELSE CHOOSE j \in js : \A k \in js : j <= k

RECURSIVE StripTags(_)
\* re.sub(r'<[^>]+>', '', text)
StripTags(s) ==
    IF s = <<>> THEN <<>>
    ELSE IF Head(s) = "<" /\ FirstGt(s) >= 3
         THEN StripTags(DropFirst(s, FirstGt(s)))
         ELSE <<Head(s)>> \o StripTags(Tail(s))

\* Length of the longest prefix of s made of characters satisfying the class.
RECURSIVE LangRun(_)
LangRun(s) == IF s # <<>> /\ IsLangChar(Head(s)) THEN 1 + LangRun(Tail(s)) ELSE 0

RECURSIVE SpaceRun(_)
SpaceRun(s) == IF s # <<>> /\ IsSpace(Head(s)) THEN 1 + SpaceRun(Tail(s)) ELSE 0

\* Index of the last '\n' among the first n characters of s, 0 when none.
LastNewline(s, n) ==
    LET js == {j \in 1..n : s[j] = "\n"}
    IN  IF js = {} THEN 0 ELSE CHOOSE j \in js : \A k \in js : j >= k

\* The backquote character, which a TLA+ string cannot hold, is written "@".
BACKQUOTE == "@"

StartsWithFence(s) ==
    Len(s) >= 3 /\ s[1] = BACKQUOTE /\ s[2] = BACKQUOTE /\ s[3] = BACKQUOTE

\* Length of the match of ```[a-zA-Z0-9_-]*\s*\n at the head of s, 0 when
\* it does not match: the greedy \s* gives characters back down to the last
\* newline of the whitespace run.
OpenFenceLen(s) ==
    IF ~StartsWithFence(s) THEN 0
    ELSE LET lang == LangRun(DropFirst(s, 3))
             rest == DropFirst(s, 3 + lang)
             nl   == LastNewline(rest, SpaceRun(rest))
         IN  IF nl = 0 THEN 0 ELSE 3 + lang + nl

\* Length of the match of ```\s*$ (MULTILINE) at the head of s, 0 when it
\* does not match: $ holds at the end of the text or just before a newline.
CloseFenceLen(s) ==
    IF ~StartsWithFence(s) THEN 0
    ELSE LET rest == DropFirst(s, 3)
             run  == SpaceRun(rest)
             nl   == LastNewline(rest, run)
         IN  IF run = Len(rest) THEN Len(s)
             ELSE IF nl = 0 THEN 0 ELSE 3 + (nl - 1)

RECURSIVE StripOpenFences(_, _)
\* re.sub(r'^```[a-zA-Z0-9_-]*\s*\n', '', text, flags=re.MULTILINE);
\* lineStart: the head of s is at the start of a line of the text.
StripOpenFences(s, lineStart) ==
    IF s = <<>> THEN <<>>
    ELSE IF lineStart /\ OpenFenceLen(s) > 0
         THEN StripOpenFences(DropFirst(s, OpenFenceLen(s)), TRUE)
         ELSE <<Head(s)>> \o StripOpenFences(Tail(s), Head(s) = "\n")

RECURSIVE StripCloseFences(_, _)
\* re.sub(r'^```\s*$', '', text, flags=re.MULTILINE)
StripCloseFences(s, lineStart) ==
    IF s = <<>> THEN <<>>
    ELSE IF lineStart /\ CloseFenceLen(s) > 0
         THEN StripCloseFences(DropFirst(s, CloseFenceLen(s)),
                               s[CloseFenceLen(s)] = "\n")
         ELSE <<Head(s)>> \o StripCloseFences(Tail(s), Head(s) = "\n")

RECURSIVE NewlineRun(_)
NewlineRun(s) == IF s # <<>> /\ Head(s) = "\n" THEN 1 + NewlineRun(Tail(s)) ELSE 0

RECURSIVE CollapseBlankLines(_)
\* re.sub(r'\n{3,}', '\n\n', text)
CollapseBlankLines(s) ==
    IF s = <<>> THEN <<>>
    ELSE IF NewlineRun(s) >= 3
         THEN <<"\n", "\n">> \o CollapseBlankLines(DropFirst(s, NewlineRun(s)))
         ELSE <<Head(s)>> \o CollapseBlankLines(Tail(s))

\* _soft_text_clean(value)
SoftTextClean(value) ==
    LET text == Strip(ReplaceCR(value))
    IN  IF text = <<>> THEN <<>>
        ELSE Strip(CollapseBlankLines(
                 StripCloseFences(StripOpenFences(StripTags(text), TRUE), TRUE)))

(***************************************************************************)
(* Configuration and provider adapter                                      *)
(***************************************************************************)
\* LLM_API_URL values: unset, an ordinary OpenAI-compatible endpoint, the
\* OpenCode Zen chat-completions endpoint, another OpenCode Zen endpoint.
PlainUrl == "https://api.example.com/v1/chat/completions"
ZenChatUrl == "https://opencode.ai/zen/v1/chat/completions"
ZenResponsesUrl == "https://opencode.ai/zen/v1/responses"
ApiUrls == {"", PlainUrl, ZenChatUrl, ZenResponsesUrl}

\* LLM_MODEL values.
Models == {"", "test-model", "deepseek-chat", "gpt-4o"}

\* _OPENCODE_ZEN_DEFAULT_CHAT_MODEL, _OPENCODE_ZEN_CHAT_HINT_MODELS
OPENCODE_ZEN_DEFAULT_CHAT_MODEL == "glm-4.7-free"
OPENCODE_ZEN_CHAT_HINT_MODELS == <<"glm-4.7-free", "kimi-k2.5-free", "big-pickle">>

\* What GET /zen/v1/models can yield: the set of listed model ids; the empty
\* set stands for an unreachable catalog, a non-200 answer or an empty list.
CatalogAnswers == {{}, {"big-pickle", "glm-4.7-free"}}

\* 'opencode.ai/zen/' in api_url.strip().lower()
IsOpencodeZenUrl(api_url) == api_url \in {ZenChatUrl, ZenResponsesUrl}

\* normalized_url.endswith('/chat/completions')
EndsWithChatCompletions(api_url) == api_url \in {PlainUrl, ZenChatUrl}

\* model.startswith(('gpt-', 'claude-', 'gemini-'))
HasResponsesPrefix(m) == m \in {"gpt-4o"}

\* 'prompt_tokens' in response_text.lower()
MentionsPromptTokens(body) == body = "prompt_tokens"

\* _is_prompt_tokens_500_error(api_url, status_code, response_text)
IsPromptTokens500Error(api_url, status_code, body) ==
    IF status_code < 500 THEN FALSE
    ELSE IF ~IsOpencodeZenUrl(api_url) THEN FALSE
    ELSE MentionsPromptTokens(body)

\* Whether _resolve_provider_model(api_url, m) reaches the call of
\* _fetch_opencode_zen_models.
ConsultsCatalog(api_url, m) ==
    /\ m # ""
    /\ IsOpencodeZenUrl(api_url)
    /\ EndsWithChatCompletions(api_url)
    /\ ~HasResponsesPrefix(IF m = "deepseek-chat" THEN OPENCODE_ZEN_DEFAULT_CHAT_MODEL ELSE m)

\* Faulty variant: a model is rejected when the catalog lists nothing.
ResolveProviderModel_EmptyCatalogRejects(api_url, m, available_models) ==
    IF m = "" THEN [model |-> "", error |-> "LLM_MODEL is not set."]
    ELSE IF ~IsOpencodeZenUrl(api_url) THEN [model |-> m, error |-> ""]
    ELSE IF ~EndsWithChatCompletions(api_url)
         THEN [model |-> "", error |-> "endpoint is not chat-completions compatible"]
    ELSE LET m2 == IF m = "deepseek-chat" THEN OPENCODE_ZEN_DEFAULT_CHAT_MODEL ELSE m
         IN  IF HasResponsesPrefix(m2)
             THEN [model |-> "", error |-> "model is not compatible with /chat/completions"]
             ELSE IF m2 \notin available_models
                  THEN [model |-> "", error |-> "model is not available"]
                  ELSE [model |-> m2, error |-> ""]

\* Faulty variant: no model family is rejected on OpenCode Zen.
ResolveProviderModel_AnyFamily(api_url, m, available_models) ==
    IF m = "" THEN [model |-> "", error |-> "LLM_MODEL is not set."]
    ELSE IF ~IsOpencodeZenUrl(api_url) THEN [model |-> m, error |-> ""]
    ELSE IF ~EndsWithChatCompletions(api_url)
         THEN [model |-> "", error |-> "endpoint is not chat-completions compatible"]
    ELSE LET m2 == IF m = "deepseek-chat" THEN OPENCODE_ZEN_DEFAULT_CHAT_MODEL ELSE m
         IN  IF available_models # {} /\ m2 \notin available_models
             THEN [model |-> "", error |-> "model is not available"]
             ELSE [model |-> m2, error |-> ""]

\* _resolve_provider_model(api_url, model) with available_models the value
\* _fetch_opencode_zen_models returns: the resolved model and the error.
ResolveProviderModel(api_url, m, available_models) ==
    IF m = "" THEN [model |-> "", error |-> "LLM_MODEL is not set."]
    ELSE IF ~IsOpencodeZenUrl(api_url) THEN [model |-> m, error |-> ""]
    ELSE IF ~EndsWithChatCompletions(api_url)
         THEN [model |-> "", error |-> "endpoint is not chat-completions compatible"]
    ELSE LET m2 == IF m = "deepseek-chat" THEN OPENCODE_ZEN_DEFAULT_CHAT_MODEL ELSE m
         IN  IF HasResponsesPrefix(m2)
             THEN [model |-> "", error |-> "model is not compatible with /chat/completions"]
             ELSE IF available_models # {} /\ m2 \notin available_models
                  THEN [model |-> "", error |-> "model is not available"]
                  ELSE [model |-> m2, error |-> ""]

\* retries = max(0, int(config.get('LLM_RETRIES', 1) or 1))
ResolveRetries(configured) == Max(0, IF configured = 0 THEN 1 ELSE configured)

(***************************************************************************)
(* Payload variants                                                        *)
(***************************************************************************)
\* _build_base_request_body: the payload by its model and the presence of
\* its optional fields (messages are the same in every variant).
BuildBaseRequestBody(m) == [model |-> m, max_tokens |-> TRUE, temperature |-> TRUE]

Range(f) == {f[i] : i \in DOMAIN f}

\* Faulty variant: every payload is appended, seen or not.
AddVariant_NoDedupe(variants, payload) == Append(variants, payload)

\* add_variant: append unless a structurally equal payload is already there.
AddVariant(variants, payload) ==
    IF payload \in Range(variants) THEN variants ELSE Append(variants, payload)

RECURSIVE AddFallbackModels(_, _, _)
AddFallbackModels(variants, minimal, fallback_models) ==
    IF fallback_models = <<>> THEN variants
    ELSE AddFallbackModels(
             AddVariant(variants, [minimal EXCEPT !.model = Head(fallback_models)]),
             minimal, Tail(fallback_models))

\* _request_body_variants(api_url, base_body)
RequestBodyVariants(api_url, base_body) ==
    LET no_temperature        == [base_body EXCEPT !.temperature = FALSE]
        minimal_current_model == [no_temperature EXCEPT !.max_tokens = FALSE]
        first                 == AddVariant(<<>>, base_body)
    IN  IF ~IsOpencodeZenUrl(api_url) THEN first
        ELSE AddFallbackModels(
                 AddVariant(AddVariant(first, no_temperature), minimal_current_model),
                 minimal_current_model,
                 <<OPENCODE_ZEN_DEFAULT_CHAT_MODEL>> \o OPENCODE_ZEN_CHAT_HINT_MODELS)

(***************************************************************************)
(* Provider responses                                                      *)
(***************************************************************************)
\* Texts a completion can carry in message.content.
Contents ==
    { <<"a">>, <<" ">>, <<"<", "i", ">", "a", "b">>,
      <<"@", "@", "@", "\n", "a", "\r", "\n", "@", "@", "@">> }

\* requests.post raising instead of returning.
Exceptions ==
    { [exc |-> e, status |-> 0, body |-> "", content |-> <<>>] :
        e \in {"Timeout", "RequestException"} }

\* Non-200 answers; the body of a 429 or a 500 either mentions
\* prompt_tokens or does not.
ErrorResponses ==
    { [exc |-> "", status |-> st, body |-> "plain", content |-> <<>>] :
        st \in {401, 404} }
    \cup { [exc |-> "", status |-> st, body |-> b, content |-> <<>>] :
             st \in {429, 500}, b \in {"plain", "prompt_tokens"} }

\* 200 answers to the synchronous call: a blank body, a body that is not
\* JSON, an object without choices or with an empty content, an object whose
\* choices list is empty, and a completion.
SyncOkResponses ==
    { [exc |-> "", status |-> 200, body |-> b, content |-> <<>>] :
        b \in {"blank", "non_json", "no_content", "choices_empty"} }
    \cup { [exc |-> "", status |-> 200, body |-> "completion", content |-> c] :
             c \in Contents }

\* 200 answer to the streaming call: the lines follow one at a time.
StreamOkResponse == [exc |-> "", status |-> 200, body |-> "stream", content |-> <<>>]

NoResponse == [exc |-> "", status |-> 0, body |-> "", content |-> <<>>]

\* Texts a stream frame can carry as its delta.
Deltas == { <<"a">>, <<" ">>, <<"<", "i", ">", "b">> }

\* Lines of a streaming body, by what the loop does with them. "blank": an
\* empty line; "comment": starts with ':'; "data_only": 'data:' and nothing
\* else; "non_json": json.loads fails; "no_choices": an object without
\* choices; "no_text": a choice without any text; "not_object": JSON that is
\* not an object, or a choice whose delta is null; "delta": a frame with text.
StreamLines ==
    { [kind |-> k, text |-> <<>>] :
        k \in {"blank", "comment", "data_only", "non_json", "no_choices",
               "no_text", "not_object"} }
    \cup { [kind |-> "delta", text |-> d] : d \in Deltas }

(***************************************************************************)
(* State                                                                   *)
(***************************************************************************)
VARIABLES
    mode,              \* "sync": get_llm_analysis_detailed, "stream": iter_llm_analysis_stream
    api_key,           \* LLM_API_KEY is set
    api_url,           \* LLM_API_URL
    cfg_model,         \* LLM_MODEL
    cfg_retries,       \* LLM_RETRIES
    models_cache,      \* _OPENCODE_MODELS_CACHE: fresh (expires_at > now) and models
    catalog_requests,  \* number of GET requests to the model catalog
    pc,                \* "start", "post" (about to send), "read" (in iter_lines), "done"
    model,             \* settings['model']
    retries,           \* settings['retries']
    variant_index,     \* index into body_variants, from 0
    attempt,           \* attempt number on the current variant, from 0
    n_sent,            \* number of completion requests sent
    cur_sends,         \* number of requests sent with the variant of the last request
    last_sent,         \* variant index and attempt of the last request sent
    last_resp,         \* what the last request got
    collected,         \* deltas accumulated from the current response
    lines_read,        \* number of stream lines read during the call
    events,            \* events yielded by the streaming call
    stream_end,        \* how the last 200 stream ended: "", "sentinel", "closed"
    open_responses,    \* responses the streaming call obtained and has not closed
    at_yield,          \* the generator is suspended at `yield {'type': 'chunk', ...}`
    outcome,           \* "pending", "ok", "error", "raised" (an uncaught exception),
                       \* "abandoned" (the consumer closed the generator)
    result_text,       \* the text returned by the synchronous call
    error              \* the error message returned or yielded

config_vars == <<mode, api_key, api_url, cfg_model, cfg_retries>>
settings_vars == <<models_cache, catalog_requests, model, retries>>
loop_vars == <<variant_index, attempt>>
sent_vars == <<n_sent, cur_sends, last_sent, last_resp>>
stream_vars == <<collected, lines_read, events, stream_end>>
gen_vars == <<open_responses, at_yield>>
result_vars == <<outcome, result_text, error>>
vars == <<config_vars, settings_vars, pc, loop_vars, sent_vars, stream_vars, gen_vars,
         result_vars>>

(***************************************************************************)
(* State of the dashboard routes api_ai_analysis and                       *)
(* api_ai_analysis_stream                                                  *)
(***************************************************************************)
VARIABLES
    route,             \* "": no request; "sync": api_ai_analysis; "stream": api_ai_analysis_stream
    force,             \* bool(payload.get('force'))
    language,          \* resolve_api_language(payload.get('language'))
    focus,             \* _resolve_coach_focus(payload.get('focus'))
    match,             \* the stored texts of the MatchAnalysis row ("" for none)
    cached_analysis,   \* what the route read from the row ("" for None)
    rpc,               \* "request", "events" (iterating the executor's events), "closed"
    ndjson,            \* lines written by event_stream
    http,              \* the JSON response of api_ai_analysis
    executor_events,   \* number of events the route took from the executor
    sync_calls         \* number of calls of get_llm_analysis_detailed by the route

route_vars == <<route, force, language, focus, match, cached_analysis, rpc, ndjson, http,
                executor_events, sync_calls>>

(***************************************************************************)
(* State of champion_assets._fetch_latest_version and its callers          *)
(***************************************************************************)
VARIABLES
    now,               \* time.time(), in seconds
    ticks,             \* number of times the clock has advanced
    app_context,       \* has_app_context(): the shared cache tier is in use
    VERSION_CACHE,     \* _VERSION_CACHE: value and expires_at
    shared_cache,      \* the entry 'champion_assets:latest_version' of the shared tier
    tpc,               \* per thread: "idle", "get" (about to requests.get), "store", "return"
    tnow,              \* per thread: the `now` its lookup captured
    tfetched,          \* per thread: version and fetch_success of its request
    returned,          \* per thread: what its last lookup returned
    lookups,           \* number of lookups started
    fetch_log          \* the upstream requests made: the `now` the lookup captured,
                       \* the time of the answer, the version obtained and
                       \* fetch_success

cache_vars == <<now, ticks, app_context, VERSION_CACHE, shared_cache, tpc, tnow, tfetched,
                returned, lookups, fetch_log>>

Threads == {1, 2}

NotFetched == [version |-> "", fetch_success |-> FALSE]

\* The module as imported: nothing cached, no lookup running.
CacheIdle ==
    /\ now = 1
    /\ ticks = 0
    /\ app_context = FALSE
    /\ VERSION_CACHE = [value |-> "", expires_at |-> 0]
    /\ shared_cache = [value |-> "", expires_at |-> 0]
    /\ tpc = [t \in Threads |-> "idle"]
    /\ tnow = [t \in Threads |-> 0]
    /\ tfetched = [t \in Threads |-> NotFetched]
    /\ returned = [t \in Threads |-> ""]
    /\ lookups = 0
    /\ fetch_log = <<>>

(***************************************************************************)
(* State of rate_limit._acquire_local and its callers                      *)
(***************************************************************************)
VARIABLES
    rl_now,            \* time.time(), in seconds
    rl_ticks,          \* number of times the clock has advanced
    limit,             \* the limit the callers pass
    window_seconds,    \* the window the callers pass
    LOCAL_BUCKETS,     \* _LOCAL_BUCKETS of the key: bucket number -> count
    apc,               \* per thread: "idle", "lock" (about to take _LOCK), "return"
    anow,              \* per thread: the `now` its acquisition read
    acount,            \* per thread: the count its acquisition saw under the lock
    await,             \* per thread: what its last acquisition returned
    acquisitions,      \* number of acquisitions started
    granted            \* bucket number -> number of acquisitions that returned 0.0

limiter_vars == <<rl_now, rl_ticks, limit, window_seconds, LOCAL_BUCKETS, apc, anow,
                  acount, await, acquisitions, granted>>

\* The module as imported: no bucket, no acquisition running.
LimiterIdle ==
    /\ rl_now = 0
    /\ rl_ticks = 0
    /\ limit = 1
    /\ window_seconds = 1
    /\ LOCAL_BUCKETS = <<>>
    /\ apc = [t \in Threads |-> "idle"]
    /\ anow = [t \in Threads |-> 0]
    /\ acount = [t \in Threads |-> 0]
    /\ await = [t \in Threads |-> -1]
    /\ acquisitions = 0
    /\ granted = <<>>

(***************************************************************************)
(* State of i18n.champion_name / item_name and the background refresh of   *)
(* the locale's Data Dragon names                                          *)
(***************************************************************************)
VARIABLES
    REFRESH_IN_FLIGHT, \* _REFRESH_IN_FLIGHT: the locales marked as being refreshed
    refresh,           \* per refresh thread: "unstarted", "running", "finally", "ended"
    refresh_raised,    \* per refresh thread: its target ended by an exception
    npc,               \* per caller: "idle", "schedule" (about to take _LOCK in
                       \* _schedule_locale_refresh), "start" (about to start the thread)
    names_cached,      \* the cached name maps of zh-CN hold the names asked for
    name_lookups,      \* number of champion_name / item_name calls started
    dd_requests        \* number of refresh runs that contacted Data Dragon

i18n_vars == <<REFRESH_IN_FLIGHT, refresh, refresh_raised, npc, names_cached, name_lookups,
               dd_requests>>

\* Bound: refresh threads of one run.
MaxRefreshes == 3

RefreshThreads == 1..MaxRefreshes

\* The module as imported: no mark, no refresh thread, nothing cached.
I18nIdle ==
    /\ REFRESH_IN_FLIGHT = {}
    /\ refresh = [r \in RefreshThreads |-> "unstarted"]
    /\ refresh_raised = [r \in RefreshThreads |-> FALSE]
    /\ npc = [t \in Threads |-> "idle"]
    /\ names_cached = FALSE
    /\ name_lookups = 0
    /\ dd_requests = 0

(***************************************************************************)
(* State of llm._build_knowledge_context and the caches it reads           *)
(***************************************************************************)
VARIABLES
    external_enabled,  \* _external_knowledge_enabled()
    kpc,               \* "idle", "patch", "ddragon", "names", "rank", "prompt", "done"
    know_now,          \* time.time(), in seconds
    know_ticks,        \* number of times the clock has advanced
    PATCH_CACHE,       \* _PATCH_CACHE: value and expires_at
    DDRAGON_CACHE,     \* _DDRAGON_CACHE: the entry of the one patch, with its expires_at
    kcalls,            \* remote lookups made by the build, by kind
    kfailed,           \* the lookups of the build that failed: "version", "reference",
                       \* "rank", and "shape" for a reference body of unexpected shape
    context,           \* the knowledge context being built
    prompt,            \* the knowledge section of the prompt: "", "context", "unavailable"
    patch_log,         \* the version requests of _fetch_current_patch: time and success
    builds             \* number of builds started

knowledge_vars == <<external_enabled, kpc, know_now, know_ticks, PATCH_CACHE, DDRAGON_CACHE,
                    kcalls, kfailed, context, prompt, patch_log, builds>>

NoCalls == [version |-> 0, reference |-> 0, rank |-> 0]

NoRank == [available |-> FALSE, message |-> "", benchmarks |-> FALSE, nearby |-> 0]

\* The context before anything is built.
EmptyContext == [built |-> FALSE, patch |-> "", reference |-> "empty", rank |-> NoRank]

\* The module as imported: nothing cached, no build running.
KnowledgeIdle ==
    /\ external_enabled = FALSE
    /\ kpc = "idle"
    /\ know_now = 1
    /\ know_ticks = 0
    /\ PATCH_CACHE = [value |-> "", expires_at |-> 0]
    /\ DDRAGON_CACHE = [patch |-> "", expires_at |-> 0, loaded |-> FALSE]
    /\ kcalls = NoCalls
    /\ kfailed = {}
    /\ context = EmptyContext
    /\ prompt = ""
    /\ patch_log = <<>>
    /\ builds = 0

\* What the executor's steps leave alone.
outside_llm == <<route_vars, cache_vars, limiter_vars, i18n_vars, knowledge_vars>>

NoHttp == [status |-> 0, kind |-> "", analysis |-> "", error |-> ""]

\* No route is serving a request.
RouteIdle ==
    /\ route = ""
    /\ force = FALSE
    /\ language = "en"
    /\ focus = "general"
    /\ match = [llm_analysis_en |-> "", llm_analysis_zh |-> "", llm_analysis |-> ""]
    /\ cached_analysis = ""
    /\ rpc = "closed"
    /\ ndjson = <<>>
    /\ http = NoHttp
    /\ executor_events = 0
    /\ sync_calls = 0

\* body_variants of the call
BodyVariants == RequestBodyVariants(api_url, BuildBaseRequestBody(model))

ChunkEvent(delta) == [type |-> "chunk", text |-> delta, error |-> ""]
DoneEvent(content) == [type |-> "done", text |-> content, error |-> ""]
ErrorEvent(message) == [type |-> "error", text |-> <<>>, error |-> message]

Init ==
    /\ mode \in {"sync", "stream"}
    /\ api_key \in BOOLEAN
    /\ api_url \in ApiUrls
    /\ cfg_model \in Models
    /\ cfg_retries \in 0..MaxCfgRetries
    /\ models_cache = [fresh |-> FALSE, models |-> {}]
    /\ catalog_requests = 0
    /\ pc = "start"
    /\ model = ""
    /\ retries = 0
    /\ variant_index = 0
    /\ attempt = 0
    /\ n_sent = 0
    /\ cur_sends = 0
    /\ last_sent = [variant |-> -1, attempt |-> -1]
    /\ last_resp = NoResponse
    /\ collected = <<>>
    /\ lines_read = 0
    /\ events = <<>>
    /\ stream_end = ""
    /\ open_responses = 0
    /\ at_yield = FALSE
    /\ outcome = "pending"
    /\ result_text = <<>>
    /\ error = ""
    /\ RouteIdle
    /\ CacheIdle
    /\ LimiterIdle
    /\ I18nIdle
    /\ KnowledgeIdle

(***************************************************************************)
(* _llm_request_settings, as both calls use it                             *)
(***************************************************************************)
\* The error _llm_request_settings returns ("" when it returns settings),
\* with available_models the catalog as _fetch_opencode_zen_models gives it.
SettingsError(available_models) ==
    IF ~api_key THEN "LLM_API_KEY is not set."
    ELSE IF api_url = "" THEN "LLM_API_URL is not set."
    ELSE ResolveProviderModel(api_url, cfg_model, available_models).error

\* Faulty variant: the model is resolved before the API key is checked.
SettingsConsultCatalog_BeforeKeyCheck ==
    api_url # "" /\ ConsultsCatalog(api_url, cfg_model)

\* Whether _llm_request_settings gets as far as the model catalog.
SettingsConsultCatalog ==
    api_key /\ api_url # "" /\ ConsultsCatalog(api_url, cfg_model)

\* The first lines of both calls: resolve the settings, and end the call with
\* the settings error if there is one. answer is what the catalog request
\* yields if _fetch_opencode_zen_models has to make it.
Begin ==
    /\ pc = "start"
    /\ \E answer \in CatalogAnswers :
         LET fetch     == SettingsConsultCatalog /\ ~models_cache.fresh
             available == IF ~SettingsConsultCatalog THEN {}
                          ELSE IF models_cache.fresh THEN models_cache.models
                          ELSE answer
             err       == SettingsError(available)
         IN  /\ models_cache' = IF fetch THEN [fresh |-> TRUE, models |-> answer]
                                ELSE models_cache
             /\ catalog_requests' = IF fetch THEN catalog_requests + 1
                                    ELSE catalog_requests
             /\ IF err # ""
                THEN /\ pc' = "done"
                     /\ outcome' = "error"
                     /\ error' = err
                     /\ events' = IF mode = "stream" THEN Append(events, ErrorEvent(err))
                                  ELSE events
                     /\ UNCHANGED <<model, retries>>
                ELSE /\ pc' = "post"
                     /\ model' = ResolveProviderModel(api_url, cfg_model, available).model
                     /\ retries' = ResolveRetries(cfg_retries)
                     /\ UNCHANGED <<outcome, error, events>>
    /\ UNCHANGED <<outside_llm, config_vars, loop_vars, sent_vars, collected, lines_read,
                   stream_end, gen_vars, result_text>>

(***************************************************************************)
(* The variant and retry loops                                             *)
(***************************************************************************)
\* What the loop body decides: "continue" (next attempt, same variant),
\* "break" (next variant), "return" (the call ends with a text or an error),
\* "raise" (an exception nothing catches), "read" (iterate the stream).
Decision(act, message, text) == [act |-> act, error |-> message, text |-> text]

\* Bookkeeping of one requests.post at (variant_index, attempt).
RecordPost(resp) ==
    /\ n_sent' = n_sent + 1
    /\ cur_sends' = IF last_sent.variant = variant_index THEN cur_sends + 1 ELSE 1
    /\ last_sent' = [variant |-> variant_index, attempt |-> attempt]
    /\ last_resp' = resp

\* `continue` in the attempt loop.
NextAttempt ==
    /\ attempt' = attempt + 1
    /\ pc' = "post"
    /\ UNCHANGED variant_index

\* Faulty variant: an exception of requests.post is retried whatever the
\* attempt.
SyncExceptionDecision_AlwaysRetry(resp) ==
    Decision("continue", "", <<>>)

\* get_llm_analysis_detailed, except requests.Timeout / RequestException:
\* retry while attempts remain, else return the error.
SyncExceptionDecision(resp) ==
    IF attempt < retries THEN Decision("continue", "", <<>>)
    ELSE IF resp.exc = "Timeout" THEN Decision("return", "Request timed out", <<>>)
    ELSE Decision("return", "Request failed", <<>>)

\* Faulty variant: a 5xx is retried on the same payload whatever its body.
SyncServerErrorDecision_RetrySame(resp) ==
    IF attempt < retries THEN Decision("continue", "", <<>>)
    ELSE Decision("return", "LLM API returned status 5xx", <<>>)

\* get_llm_analysis_detailed, if resp.status_code >= 500.
SyncServerErrorDecision(resp) ==
    IF /\ IsPromptTokens500Error(api_url, resp.status, resp.body)
       /\ variant_index < Len(BodyVariants) - 1
    THEN Decision("break", "", <<>>)
    ELSE IF attempt < retries THEN Decision("continue", "", <<>>)
    ELSE Decision("return", "LLM API returned status 5xx", <<>>)

\* Faulty variant: a status below 500 other than 401 and 404 is retried.
SyncStatusDecision_RetryOther(resp) ==
    IF resp.status = 401 THEN Decision("return", "Authentication failed (401)", <<>>)
    ELSE IF resp.status = 404 THEN Decision("return", "Endpoint not found (404)", <<>>)
    ELSE IF attempt < retries THEN Decision("continue", "", <<>>)
    ELSE Decision("return", "LLM API returned status", <<>>)

\* get_llm_analysis_detailed, the statuses below 500 other than 200.
SyncStatusDecision(resp) ==
    IF resp.status = 401 THEN Decision("return", "Authentication failed (401)", <<>>)
    ELSE IF resp.status = 404 THEN Decision("return", "Endpoint not found (404)", <<>>)
    ELSE Decision("return", "LLM API returned status", <<>>)

\* get_llm_analysis_detailed, a 200: the body, its JSON and the completion.
SyncBodyDecision(resp) ==
    IF resp.body = "blank"
    THEN Decision("return", "LLM API returned empty response body", <<>>)
    ELSE IF resp.body = "non_json"
    THEN Decision("return", "LLM API returned non-JSON response", <<>>)
    ELSE IF resp.body = "choices_empty" THEN Decision("raise", "IndexError", <<>>)
    ELSE IF resp.content = <<>>
    THEN Decision("return", "LLM API response missing choices/content", <<>>)
    ELSE Decision("return", "", SoftTextClean(resp.content))

\* get_llm_analysis_detailed: the handling of one response or exception.
SyncDecision(resp) ==
    IF resp.exc # "" THEN SyncExceptionDecision(resp)
    ELSE IF resp.status \in {401, 404} THEN SyncStatusDecision(resp)
    ELSE IF resp.status >= 500 THEN SyncServerErrorDecision(resp)
    ELSE IF resp.status # 200 THEN SyncStatusDecision(resp)
    ELSE SyncBodyDecision(resp)

\* get_llm_analysis_detailed: one requests.post and what follows it, up to
\* the next request or the end of the call.
SyncPost ==
    /\ pc = "post"
    /\ mode = "sync"
    /\ \E resp \in Exceptions \cup ErrorResponses \cup SyncOkResponses :
         LET d == SyncDecision(resp)
         IN  /\ RecordPost(resp)
             /\ CASE d.act = "continue" ->
                       /\ NextAttempt
                       /\ UNCHANGED result_vars
                  [] d.act = "break" ->
                       IF variant_index + 1 < Len(BodyVariants)
                       THEN /\ variant_index' = variant_index + 1
                            /\ attempt' = 0
                            /\ pc' = "post"
                            /\ UNCHANGED result_vars
                       ELSE /\ pc' = "done"
                            /\ outcome' = "error"
                            /\ error' = "LLM API returned status 5xx"
                            /\ UNCHANGED <<loop_vars, result_text>>
                  [] d.act = "raise" ->
                       /\ pc' = "done"
                       /\ outcome' = "raised"
                       /\ error' = d.error
                       /\ UNCHANGED <<loop_vars, result_text>>
                  [] OTHER ->
                       /\ pc' = "done"
                       /\ outcome' = IF d.error = "" THEN "ok" ELSE "error"
                       /\ error' = d.error
                       /\ result_text' = d.text
                       /\ UNCHANGED loop_vars
    /\ UNCHANGED <<outside_llm, config_vars, settings_vars, stream_vars, gen_vars>>

(***************************************************************************)
(* iter_llm_analysis_stream                                                *)
(***************************************************************************)
\* Faulty variant: an exception of requests.post is never retried.
StreamExceptionDecision_NoRetry(resp) ==
    IF resp.exc = "Timeout" THEN Decision("return", "Request timed out", <<>>)
    ELSE Decision("return", "Request failed", <<>>)

\* iter_llm_analysis_stream, except requests.Timeout / RequestException
\* raised by requests.post: retry while attempts remain, else yield the error.
StreamExceptionDecision(resp) ==
    IF attempt < retries THEN Decision("continue", "", <<>>)
    ELSE IF resp.exc = "Timeout" THEN Decision("return", "Request timed out", <<>>)
    ELSE Decision("return", "Request failed", <<>>)

\* Faulty variant: a 5xx that has used up the retries moves to the next variant.
StreamServerErrorDecision_AdvanceWhenExhausted(resp) ==
    IF /\ IsPromptTokens500Error(api_url, resp.status, resp.body)
       /\ variant_index < Len(BodyVariants) - 1
    THEN Decision("break", "", <<>>)
    ELSE IF attempt < retries THEN Decision("continue", "", <<>>)
    ELSE IF variant_index < Len(BodyVariants) - 1 THEN Decision("break", "", <<>>)
    ELSE Decision("return", "LLM API returned status 5xx", <<>>)

\* iter_llm_analysis_stream, if resp.status_code >= 500.
StreamServerErrorDecision(resp) ==
    IF /\ IsPromptTokens500Error(api_url, resp.status, resp.body)
       /\ variant_index < Len(BodyVariants) - 1
    THEN Decision("break", "", <<>>)
    ELSE IF attempt < retries THEN Decision("continue", "", <<>>)
    ELSE Decision("return", "LLM API returned status 5xx", <<>>)

\* iter_llm_analysis_stream, the statuses below 500 other than 200.
StreamStatusDecision(resp) ==
    IF resp.status = 401 THEN Decision("return", "Authentication failed (401)", <<>>)
    ELSE IF resp.status = 404 THEN Decision("return", "Endpoint not found (404)", <<>>)
    ELSE Decision("return", "LLM API returned status", <<>>)

\* iter_llm_analysis_stream: the handling of one response or exception of
\* requests.post, before any line is read.
StreamDecision(resp) ==
    IF resp.exc # "" THEN StreamExceptionDecision(resp)
    ELSE IF resp.status \in {401, 404} THEN StreamStatusDecision(resp)
    ELSE IF resp.status >= 500 THEN StreamServerErrorDecision(resp)
    ELSE IF resp.status # 200 THEN StreamStatusDecision(resp)
    ELSE Decision("read", "", <<>>)

\* The stream ends by yielding an error event.
YieldErrorAndReturn(message) ==
    /\ pc' = "done"
    /\ outcome' = "error"
    /\ error' = message
    /\ events' = Append(events, ErrorEvent(message))
    /\ UNCHANGED <<loop_vars, result_text>>

\* Faulty variant: the finally clause leaves the response open.
Finally_LeavesOpen(obtained, open) == open

\* iter_llm_analysis_stream, `finally: if resp is not None: resp.close()`:
\* the number of open responses after it, with obtained telling whether
\* requests.post returned a response in this attempt (resp is not None).
Finally(obtained, open) == IF obtained THEN open - 1 ELSE open

\* iter_llm_analysis_stream: one requests.post(stream=True) and what follows
\* it, up to the next request, the first line of the body or the end.
StreamPost ==
    /\ pc = "post"
    /\ mode = "stream"
    /\ \E resp \in Exceptions \cup ErrorResponses \cup {StreamOkResponse} :
         LET d        == StreamDecision(resp)
             obtained == resp.exc = ""
             open     == IF obtained THEN open_responses + 1 ELSE open_responses
         IN  /\ RecordPost(resp)
             /\ open_responses' = IF d.act = "read" THEN open ELSE Finally(obtained, open)
             /\ CASE d.act = "continue" ->
                       /\ NextAttempt
                       /\ UNCHANGED <<result_vars, events, collected>>
                  [] d.act = "break" ->
                       IF variant_index + 1 < Len(BodyVariants)
                       THEN /\ variant_index' = variant_index + 1
                            /\ attempt' = 0
                            /\ pc' = "post"
                            /\ UNCHANGED <<result_vars, events, collected>>
                       ELSE /\ YieldErrorAndReturn("LLM API returned status 5xx")
                            /\ UNCHANGED collected
                  [] d.act = "read" ->
                       /\ pc' = "read"
                       /\ collected' = <<>>
                       /\ UNCHANGED <<loop_vars, result_vars, events>>
                  [] OTHER ->
                       /\ YieldErrorAndReturn(d.error)
                       /\ UNCHANGED collected
    /\ UNCHANGED <<outside_llm, config_vars, settings_vars, lines_read, stream_end, at_yield>>

\* What the body of `for raw_line in resp.iter_lines()` does with one line:
\* "skip" (continue), "chunk" (collect and yield the delta), "raise".
LineDecision(line) ==
    IF line.kind \in {"blank", "comment", "data_only", "non_json", "no_choices"}
    THEN "skip"
    ELSE IF line.kind = "not_object" THEN "raise"
    ELSE IF line.text # <<>> THEN "chunk"
    ELSE "skip"

\* iter_llm_analysis_stream: one line of the body arrives.
StreamLine ==
    /\ pc = "read"
    /\ lines_read < MaxLines
    /\ \E line \in StreamLines :
         /\ lines_read' = lines_read + 1
         /\ CASE LineDecision(line) = "chunk" ->
                   /\ collected' = Append(collected, line.text)
                   /\ events' = Append(events, ChunkEvent(line.text))
                   /\ at_yield' = TRUE
                   /\ UNCHANGED <<pc, result_vars, open_responses>>
              [] LineDecision(line) = "raise" ->
                   /\ pc' = "done"
                   /\ outcome' = "raised"
                   /\ error' = "AttributeError"
                   /\ at_yield' = FALSE
                   /\ open_responses' = Finally(TRUE, open_responses)
                   /\ UNCHANGED <<collected, events, result_text>>
              [] OTHER ->
                   /\ at_yield' = FALSE
                   /\ UNCHANGED <<pc, collected, events, result_vars, open_responses>>
    /\ UNCHANGED <<outside_llm, config_vars, settings_vars, loop_vars, sent_vars, stream_end>>

\* Faulty variant: the accumulated text is not normalised.
StreamContent_Unnormalized(parts) == Concat(parts)

\* What the stream yields when the line loop is over: the content of the
\* done event, or <<>> when an error event is yielded instead.
StreamContent(parts) == SoftTextClean(Concat(parts))

\* iter_llm_analysis_stream: the line loop ends, by the [DONE] line or by
\* the body ending.
StreamEnd ==
    /\ pc = "read"
    /\ \E how \in {"sentinel", "closed"} : stream_end' = how
    /\ pc' = "done"
    /\ IF StreamContent(collected) = <<>>
       THEN /\ outcome' = "error"
            /\ error' = "LLM stream response missing choices/content"
            /\ events' = Append(events, ErrorEvent("LLM stream response missing choices/content"))
       ELSE /\ outcome' = "ok"
            /\ error' = ""
            /\ events' = Append(events, DoneEvent(StreamContent(collected)))
    /\ at_yield' = FALSE
    /\ open_responses' = Finally(TRUE, open_responses)
    /\ UNCHANGED <<outside_llm, config_vars, settings_vars, loop_vars, sent_vars, collected,
                   lines_read, result_text>>

\* What the except clauses around the line loop decide when iter_lines
\* raises: "continue" or the error to yield.
BrokenStreamDecision(exc) ==
    IF attempt < retries THEN Decision("continue", "", <<>>)
    ELSE IF exc = "Timeout" THEN Decision("return", "Request timed out", <<>>)
    ELSE Decision("return", "Request failed", <<>>)

\* iter_llm_analysis_stream: iter_lines raises while the body is read (the
\* connection breaks or the read times out).
StreamBroken ==
    /\ pc = "read"
    /\ \E exc \in {"Timeout", "RequestException"} :
         LET d == BrokenStreamDecision(exc)
         IN  IF d.act = "continue"
             THEN /\ NextAttempt
                  /\ UNCHANGED <<result_vars, events>>
             ELSE YieldErrorAndReturn(d.error)
    /\ at_yield' = FALSE
    /\ open_responses' = Finally(TRUE, open_responses)
    /\ UNCHANGED <<outside_llm, config_vars, settings_vars, sent_vars, collected, lines_read,
                   stream_end>>

\* iter_llm_analysis_stream: the consumer closes the generator (or drops it)
\* while it is suspended at a chunk yield: GeneratorExit is raised at the
\* yield, no except clause catches it, and the finally clause runs.
StreamAbandon ==
    /\ pc = "read"
    /\ at_yield
    /\ pc' = "done"
    /\ outcome' = "abandoned"
    /\ at_yield' = FALSE
    /\ open_responses' = Finally(TRUE, open_responses)
    /\ UNCHANGED <<outside_llm, config_vars, settings_vars, loop_vars, sent_vars, stream_vars,
                   result_text, error>>

Next ==
    \/ Begin
    \/ SyncPost
    \/ StreamPost
    \/ StreamLine
    \/ StreamEnd
    \/ StreamBroken
    \/ StreamAbandon

Spec == Init /\ [][Next]_vars

(***************************************************************************)
(* The dashboard routes: api_ai_analysis and api_ai_analysis_stream        *)
(***************************************************************************)
\* Bound: the events the streaming route takes from the executor before the
\* executor's generator ends or raises.
MaxExecutorEvents == 2

ALLOWED_COACH_FOCUS == {"general", "laning", "teamfight", "macro", "vision", "mechanics"}

\* _resolve_coach_focus, for a focus value already stripped and lowercased.
ResolveCoachFocus(value) == IF value \in ALLOWED_COACH_FOCUS THEN value ELSE "general"

\* The focus values of the request payload the model draws.
FocusValues == {"", "vision", "bogus"}

\* The languages resolve_api_language yields.
Languages == {"en", "zh-CN"}

AnalysisColumnForLanguage(lang) ==
    IF lang = "zh-CN" THEN "llm_analysis_zh" ELSE "llm_analysis_en"

GetCachedAnalysis(m, lang) ==
    IF m[AnalysisColumnForLanguage(lang)] # "" THEN m[AnalysisColumnForLanguage(lang)]
    ELSE IF lang = "en" /\ m.llm_analysis # "" THEN m.llm_analysis
    ELSE ""

SetCachedAnalysis(m, lang, analysis_text) ==
    LET set == [m EXCEPT ![AnalysisColumnForLanguage(lang)] = analysis_text]
    IN  IF lang = "en" THEN [set EXCEPT !.llm_analysis = analysis_text] ELSE set

\* The rows a request may find: each text column empty or filled.
StoredMatches ==
    [llm_analysis_en : {"", "stored en"},
     llm_analysis_zh : {"", "stored zh"},
     llm_analysis    : {"", "stored legacy"}]

\* Error messages of the executor, by their first words.
ExecutorErrors ==
    {"Authentication failed (401)", "Endpoint not found (404)", "Request timed out",
     "Request failed", "LLM API returned status", "LLM_API_KEY is not set.",
     "is not compatible with /chat/completions", "is not available on OpenCode Zen"}

\* Whether the lowercased message contains 'timed out'.
MentionsTimedOut(message) == message = "Request timed out"

\* Whether the lowercased message contains 'not compatible with
\* /chat/completions', 'not available on opencode zen' or 'llm_'. The 401
\* message goes on "Check your LLM_API_KEY", the 404 message "Check your
\* LLM_API_URL", the timeout message "Consider lowering LLM_MAX_TOKENS".
MentionsConfiguration(message) ==
    message \in {"is not compatible with /chat/completions",
                 "is not available on OpenCode Zen",
                 "LLM_API_KEY is not set.",
                 "Authentication failed (401)",
                 "Endpoint not found (404)",
                 "Request timed out"}

AiErrorStatus(message) ==
    IF MentionsTimedOut(message) THEN 504
    ELSE IF MentionsConfiguration(message) THEN 400
    ELSE 502

\* What get_llm_analysis_detailed hands the route: a text, an error, or
\* neither (a completion that is cleaned to nothing).
SyncResults ==
    {[result |-> "generated", error |-> ""], [result |-> "", error |-> ""]}
    \cup {[result |-> "", error |-> e] : e \in ExecutorErrors}

\* The events the streaming route may take from the executor.
ExecutorEvents ==
    {[type |-> "chunk", text |-> "a", error |-> ""],
     [type |-> "chunk", text |-> "", error |-> ""],
     [type |-> "done", text |-> "generated", error |-> ""],
     [type |-> "done", text |-> "", error |-> ""],
     [type |-> "error", text |-> "", error |-> ""],
     [type |-> "other", text |-> "", error |-> ""]}
    \cup {[type |-> "error", text |-> "", error |-> e] : e \in ExecutorErrors}

NdjsonLine(type, analysis, message, status, cached) ==
    [type |-> type, analysis |-> analysis, error |-> message, status |-> status,
     cached |-> cached]

\* The executor is not part of a run of the routes: the routes take its
\* results as inputs.
LlmIdle ==
    /\ mode = "sync"
    /\ api_key = TRUE
    /\ api_url = PlainUrl
    /\ cfg_model = "test-model"
    /\ cfg_retries = 0
    /\ models_cache = [fresh |-> FALSE, models |-> {}]
    /\ catalog_requests = 0
    /\ pc = "start"
    /\ model = ""
    /\ retries = 0
    /\ variant_index = 0
    /\ attempt = 0
    /\ n_sent = 0
    /\ cur_sends = 0
    /\ last_sent = [variant |-> -1, attempt |-> -1]
    /\ last_resp = NoResponse
    /\ collected = <<>>
    /\ lines_read = 0
    /\ events = <<>>
    /\ stream_end = ""
    /\ open_responses = 0
    /\ at_yield = FALSE
    /\ outcome = "pending"
    /\ result_text = <<>>
    /\ error = ""

\* What the routes' steps leave alone.
outside_routes == <<vars, cache_vars, limiter_vars, i18n_vars, knowledge_vars>>

RouteInit ==
    /\ LlmIdle
    /\ CacheIdle
    /\ LimiterIdle
    /\ I18nIdle
    /\ KnowledgeIdle
    /\ route \in {"sync", "stream"}
    /\ force \in BOOLEAN
    /\ language \in Languages
    /\ focus \in {ResolveCoachFocus(v) : v \in FocusValues}
    /\ match \in StoredMatches
    /\ cached_analysis = ""
    /\ rpc = "request"
    /\ ndjson = <<>>
    /\ http = NoHttp
    /\ executor_events = 0
    /\ sync_calls = 0

\* persist_generated_analysis of both routes, whatever the focus.
persist_generated_analysis == TRUE

\* The 'persisted' field of a line or a response that carries a generated
\* text or an error line; cached and stale answers carry True.
ReportedPersisted == persist_generated_analysis

\* What both routes read from the row before anything else.
ReadCachedAnalysis ==
    IF focus = "general" THEN GetCachedAnalysis(match, language) ELSE ""

\* api_ai_analysis, the whole handler. The call of get_llm_analysis_detailed
\* returns one of SyncResults or raises (the response is then a 500).
ApiAiAnalysis ==
    /\ route = "sync"
    /\ rpc = "request"
    /\ rpc' = "closed"
    /\ cached_analysis' = ReadCachedAnalysis
    /\ sync_calls' = IF ReadCachedAnalysis # "" /\ ~force THEN sync_calls
                     ELSE sync_calls + 1
    /\ IF ReadCachedAnalysis # "" /\ ~force
       THEN /\ http' = [status |-> 200, kind |-> "cached",
                        analysis |-> ReadCachedAnalysis, error |-> ""]
            /\ UNCHANGED match
       ELSE \/ /\ http' = [status |-> 500, kind |-> "exception", analysis |-> "",
                           error |-> ""]
               /\ UNCHANGED match
            \/ \E r \in SyncResults :
                 IF r.error # ""
                 THEN /\ http' = IF ReadCachedAnalysis # ""
                                 THEN [status |-> 200, kind |-> "stale",
                                       analysis |-> ReadCachedAnalysis, error |-> r.error]
                                 ELSE [status |-> AiErrorStatus(r.error), kind |-> "error",
                                       analysis |-> "", error |-> r.error]
                      /\ UNCHANGED match
                 ELSE /\ match' = IF r.result # "" /\ persist_generated_analysis
                                  THEN SetCachedAnalysis(match, language, r.result)
                                  ELSE match
                      /\ http' = [status |-> 200, kind |-> "fresh",
                                  analysis |-> r.result, error |-> ""]
    /\ UNCHANGED <<outside_routes, route, force, language, focus, ndjson, executor_events>>

\* api_ai_analysis_stream and the first lines of event_stream: the cached
\* answer, or the meta line of a generation.
StreamRouteOpen ==
    /\ route = "stream"
    /\ rpc = "request"
    /\ cached_analysis' = ReadCachedAnalysis
    /\ IF ReadCachedAnalysis # "" /\ ~force
       THEN /\ ndjson' = <<NdjsonLine("meta", "", "", 0, TRUE),
                          NdjsonLine("done", ReadCachedAnalysis, "", 0, TRUE)>>
            /\ rpc' = "closed"
       ELSE /\ ndjson' = <<NdjsonLine("meta", "", "", 0, FALSE)>>
            /\ rpc' = "events"
    /\ UNCHANGED <<outside_routes, route, force, language, focus, match, http,
                   executor_events, sync_calls>>

\* event_stream: one event of iter_llm_analysis_stream and what the loop
\* body does with it.
RouteEvent ==
    /\ rpc = "events"
    /\ executor_events < MaxExecutorEvents
    /\ executor_events' = executor_events + 1
    /\ \E event \in ExecutorEvents :
         CASE event.type = "chunk" ->
                /\ ndjson' = IF event.text # ""
                             THEN Append(ndjson, NdjsonLine("chunk", event.text, "", 0, FALSE))
                             ELSE ndjson
                /\ UNCHANGED <<rpc, match>>
           [] event.type = "done" ->
                /\ match' = IF event.text # "" /\ persist_generated_analysis
                            THEN SetCachedAnalysis(match, language, event.text)
                            ELSE match
                /\ ndjson' = Append(ndjson, NdjsonLine("done", event.text, "", 0, FALSE))
                /\ rpc' = "closed"
           [] event.type = "error" ->
                LET message == IF event.error # "" THEN event.error
                               ELSE "AI analysis failed."
                IN  /\ ndjson' = Append(ndjson,
                                   IF cached_analysis # ""
                                   THEN NdjsonLine("stale", cached_analysis, message, 0, TRUE)
                                   ELSE NdjsonLine("error", "", message,
                                                   AiErrorStatus(message), FALSE))
                    /\ rpc' = "closed"
                    /\ UNCHANGED match
           [] OTHER ->
                UNCHANGED <<rpc, match, ndjson>>
    /\ UNCHANGED <<outside_routes, route, force, language, focus, cached_analysis, http,
                   sync_calls>>

\* event_stream: the executor's generator ends without a done or error
\* event, and the lines after the loop are written.
RouteExhausted ==
    /\ rpc = "events"
    /\ rpc' = "closed"
    /\ ndjson' = Append(ndjson,
                   IF cached_analysis # ""
                   THEN NdjsonLine("stale", cached_analysis,
                                   "AI analysis stream ended without a final result.", 0, TRUE)
                   ELSE NdjsonLine("error", "",
                                   "AI analysis stream ended without a final result.",
                                   502, FALSE))
    /\ UNCHANGED <<outside_routes, route, force, language, focus, match, cached_analysis,
                   http, executor_events, sync_calls>>

\* event_stream: the call of iter_llm_analysis_stream, or a later step of
\* its generator, raises; nothing in event_stream catches the exception.
RouteExecutorRaises ==
    /\ rpc = "events"
    /\ rpc' = "closed"
    /\ http' = [status |-> 200, kind |-> "exception", analysis |-> "", error |-> ""]
    /\ UNCHANGED <<outside_routes, route, force, language, focus, match, cached_analysis,
                   ndjson, executor_events, sync_calls>>

RouteNext ==
    \/ ApiAiAnalysis
    \/ StreamRouteOpen
    \/ RouteEvent
    \/ RouteExhausted
    \/ RouteExecutorRaises

all_vars == <<vars, route_vars, cache_vars, limiter_vars, i18n_vars, knowledge_vars>>

RouteSpec == RouteInit /\ [][RouteNext]_all_vars

(***************************************************************************)
(* champion_assets: the cached lookup of the latest Data Dragon version    *)
(***************************************************************************)
\* Bounds: clock advances and lookups of one run.
MaxTicks == 3
MaxLookups == 3

VERSION_SUCCESS_TTL_SECONDS == 6 * 3600
VERSION_FAILURE_TTL_SECONDS == 120

\* What requests.get(_VERSIONS_URL) can come to: the first version of the
\* list of a 200 answer, or no version (an exception, another status, an
\* empty or malformed list).
VersionAnswers ==
    {[version |-> "26.3.1", fetch_success |-> TRUE],
     [version |-> "26.4.1", fetch_success |-> TRUE],
     NotFetched}

\* Seconds the clock can advance by in one step; while a lookup is between
\* its cache check and its return only the shortest.
Delays == {1, VERSION_FAILURE_TTL_SECONDS, VERSION_SUCCESS_TTL_SECONDS}

\* Faulty variant: the shared entry is read whatever its timeout.
CacheGet_IgnoresTimeout ==
    IF app_context THEN shared_cache.value ELSE ""

\* _cache_get('champion_assets:latest_version'): None ("") without an app
\* context or when the entry is missing or expired.
CacheGet ==
    IF app_context /\ shared_cache.expires_at > now THEN shared_cache.value ELSE ""

\* Faulty variant: the local entry is used whatever its expires_at.
LocalEntryFresh_Always == TRUE

\* _VERSION_CACHE['expires_at'] > now
LocalEntryFresh == VERSION_CACHE.expires_at > now

\* What the lookups' steps leave alone.
outside_cache == <<vars, route_vars, limiter_vars, i18n_vars, knowledge_vars>>

CacheInit ==
    /\ LlmIdle
    /\ RouteIdle
    /\ LimiterIdle
    /\ I18nIdle
    /\ KnowledgeIdle
    /\ now = 1
    /\ ticks = 0
    /\ app_context \in BOOLEAN
    /\ VERSION_CACHE = [value |-> "", expires_at |-> 0]
    /\ shared_cache = [value |-> "", expires_at |-> 0]
    /\ tpc = [t \in Threads |-> "idle"]
    /\ tnow = [t \in Threads |-> 0]
    /\ tfetched = [t \in Threads |-> NotFetched]
    /\ returned = [t \in Threads |-> ""]
    /\ lookups = 0
    /\ fetch_log = <<>>

\* _fetch_latest_version, from its first line to the end of the first
\* `with _LOCK` block: return the shared entry, or the local entry, or go on
\* to the request.
LookupStart(t) ==
    /\ tpc[t] = "idle"
    /\ lookups < MaxLookups
    /\ lookups' = lookups + 1
    /\ tnow' = [tnow EXCEPT ![t] = now]
    /\ IF CacheGet # ""
       THEN /\ returned' = [returned EXCEPT ![t] = CacheGet]
            /\ UNCHANGED tpc
       ELSE IF LocalEntryFresh
       THEN /\ returned' = [returned EXCEPT ![t] = VERSION_CACHE.value]
            /\ UNCHANGED tpc
       ELSE /\ tpc' = [tpc EXCEPT ![t] = "get"]
            /\ UNCHANGED returned
    /\ UNCHANGED <<outside_cache, now, ticks, app_context, VERSION_CACHE, shared_cache,
                   tfetched, fetch_log>>

\* _fetch_latest_version: requests.get(_VERSIONS_URL, timeout=6) and the
\* reading of its answer.
HttpGet(t) ==
    /\ tpc[t] = "get"
    /\ \E answer \in VersionAnswers :
         /\ tfetched' = [tfetched EXCEPT ![t] = answer]
         /\ fetch_log' = Append(fetch_log, [at |-> tnow[t], got |-> now,
                                            version |-> answer.version,
                                            fetch_success |-> answer.fetch_success])
    /\ tpc' = [tpc EXCEPT ![t] = "store"]
    /\ UNCHANGED <<outside_cache, now, ticks, app_context, VERSION_CACHE, shared_cache,
                   tnow, returned, lookups>>

\* _fetch_latest_version, the second `with _LOCK` block.
Store(t) ==
    /\ tpc[t] = "store"
    /\ IF tfetched[t].fetch_success
       THEN /\ VERSION_CACHE' = [value |-> tfetched[t].version,
                                 expires_at |-> tnow[t] + VERSION_SUCCESS_TTL_SECONDS]
            /\ shared_cache' = IF app_context
                               THEN [value |-> tfetched[t].version,
                                     expires_at |-> now + VERSION_SUCCESS_TTL_SECONDS]
                               ELSE shared_cache
       ELSE /\ VERSION_CACHE' = [VERSION_CACHE EXCEPT
                                   !.expires_at = tnow[t] + VERSION_FAILURE_TTL_SECONDS]
            /\ UNCHANGED shared_cache
    /\ tpc' = [tpc EXCEPT ![t] = "return"]
    /\ UNCHANGED <<outside_cache, now, ticks, app_context, tnow, tfetched, returned,
                   lookups, fetch_log>>

\* _fetch_latest_version: `return _VERSION_CACHE['value']`, outside the lock.
Return(t) ==
    /\ tpc[t] = "return"
    /\ returned' = [returned EXCEPT ![t] = VERSION_CACHE.value]
    /\ tpc' = [tpc EXCEPT ![t] = "idle"]
    /\ UNCHANGED <<outside_cache, now, ticks, app_context, VERSION_CACHE, shared_cache,
                   tnow, tfetched, lookups, fetch_log>>

\* Time passes; none between an answer and the store that follows it.
Tick ==
    /\ ticks < MaxTicks
    /\ \A t \in Threads : tpc[t] # "store"
    /\ ticks' = ticks + 1
    /\ \E d \in Delays :
         /\ (\E t \in Threads : tpc[t] # "idle") => d = 1
         /\ now' = now + d
    /\ UNCHANGED <<outside_cache, app_context, VERSION_CACHE, shared_cache, tpc, tnow,
                   tfetched, returned, lookups, fetch_log>>

\* A lookup starts while no other lookup is running.
SequentialLookupStart(t) ==
    /\ \A u \in Threads : tpc[u] = "idle"
    /\ LookupStart(t)

\* Lookups from several threads, in any interleaving.
CacheNext ==
    \/ \E t \in Threads : LookupStart(t)
    \/ \E t \in Threads : HttpGet(t)
    \/ \E t \in Threads : Store(t)
    \/ \E t \in Threads : Return(t)
    \/ Tick

cache_all_vars == <<vars, route_vars, cache_vars, limiter_vars, i18n_vars, knowledge_vars>>

CacheSpec == CacheInit /\ [][CacheNext]_cache_all_vars

\* Lookups one after the other.
SequentialCacheNext ==
    \/ \E t \in Threads : SequentialLookupStart(t)
    \/ \E t \in Threads : HttpGet(t)
    \/ \E t \in Threads : Store(t)
    \/ \E t \in Threads : Return(t)
    \/ Tick

SequentialCacheSpec == CacheInit /\ [][SequentialCacheNext]_cache_all_vars

(***************************************************************************)
(* rate_limit: the in-memory fixed-window limiter                          *)
(***************************************************************************)
\* Bounds: clock advances and acquisitions of one run.
MaxLimiterTicks == 3
MaxAcquisitions == 4

\* Limits and windows the callers pass (throttle returns at once for a
\* limit below 1).
Limits == {1, 2}
Windows == {1, 2}

\* _window_bucket(now, window_seconds)
WindowBucket(t_now, window) ==
    t_now \div (IF window > 1 THEN window ELSE 1)

\* _LOCAL_BUCKETS.get(full_key, 0)
BucketCount(buckets, bucket) ==
    IF bucket \in DOMAIN buckets THEN buckets[bucket] ELSE 0

\* stale_cutoff = bucket - 2
StaleCutoff(bucket) == bucket - 2

\* The locked block of _acquire_local: count the acquisition in its bucket
\* and drop the key's buckets below the cutoff.
CountAndClean(buckets, bucket) ==
    LET counted == [b \in DOMAIN buckets \cup {bucket} |->
                      IF b = bucket THEN BucketCount(buckets, bucket) + 1 ELSE buckets[b]]
    IN  [b \in {k \in DOMAIN counted : k >= StaleCutoff(bucket)} |-> counted[b]]

\* What _acquire_local returns for a count.
WaitSeconds(count, t_now) ==
    IF count <= limit THEN 0
    ELSE ((WindowBucket(t_now, window_seconds) + 1) * window_seconds) - t_now

\* What the limiter's steps leave alone.
outside_limiter == <<vars, route_vars, cache_vars, i18n_vars, knowledge_vars>>

LimiterInit ==
    /\ LlmIdle
    /\ RouteIdle
    /\ CacheIdle
    /\ I18nIdle
    /\ KnowledgeIdle
    /\ rl_now = 0
    /\ rl_ticks = 0
    /\ limit \in Limits
    /\ window_seconds \in Windows
    /\ LOCAL_BUCKETS = <<>>
    /\ apc = [t \in Threads |-> "idle"]
    /\ anow = [t \in Threads |-> 0]
    /\ acount = [t \in Threads |-> 0]
    /\ await = [t \in Threads |-> -1]
    /\ acquisitions = 0
    /\ granted = <<>>

\* _acquire_local: now = time.time(), before the lock is taken.
AcquireStart(t) ==
    /\ apc[t] = "idle"
    /\ acquisitions < MaxAcquisitions
    /\ acquisitions' = acquisitions + 1
    /\ anow' = [anow EXCEPT ![t] = rl_now]
    /\ apc' = [apc EXCEPT ![t] = "lock"]
    /\ UNCHANGED <<outside_limiter, rl_now, rl_ticks, limit, window_seconds, LOCAL_BUCKETS,
                   acount, await, granted>>

\* _acquire_local: the block under _LOCK.
AcquireLocked(t) ==
    /\ apc[t] = "lock"
    /\ LET bucket == WindowBucket(anow[t], window_seconds)
       IN  /\ acount' = [acount EXCEPT ![t] = BucketCount(LOCAL_BUCKETS, bucket) + 1]
           /\ LOCAL_BUCKETS' = CountAndClean(LOCAL_BUCKETS, bucket)
    /\ apc' = [apc EXCEPT ![t] = "return"]
    /\ UNCHANGED <<outside_limiter, rl_now, rl_ticks, limit, window_seconds, anow, await,
                   acquisitions, granted>>

\* _acquire_local: the return after the lock is released.
AcquireReturn(t) ==
    /\ apc[t] = "return"
    /\ LET bucket == WindowBucket(anow[t], window_seconds)
           wait == WaitSeconds(acount[t], anow[t])
       IN  /\ await' = [await EXCEPT ![t] = wait]
           /\ granted' = IF wait = 0
                         THEN [b \in DOMAIN granted \cup {bucket} |->
                                 BucketCount(granted, b) + (IF b = bucket THEN 1 ELSE 0)]
                         ELSE granted
    /\ apc' = [apc EXCEPT ![t] = "idle"]
    /\ UNCHANGED <<outside_limiter, rl_now, rl_ticks, limit, window_seconds, LOCAL_BUCKETS,
                   anow, acount, acquisitions>>

\* A second passes.
LimiterTick ==
    /\ rl_ticks < MaxLimiterTicks
    /\ rl_ticks' = rl_ticks + 1
    /\ rl_now' = rl_now + 1
    /\ UNCHANGED <<outside_limiter, limit, window_seconds, LOCAL_BUCKETS, apc, anow, acount,
                   await, acquisitions, granted>>

LimiterNext ==
    \/ \E t \in Threads : AcquireStart(t)
    \/ \E t \in Threads : AcquireLocked(t)
    \/ \E t \in Threads : AcquireReturn(t)
    \/ LimiterTick

LimiterSpec == LimiterInit /\ [][LimiterNext]_all_vars

(***************************************************************************)
(* i18n: champion_name / item_name and _schedule_locale_refresh            *)
(***************************************************************************)
\* Bound: name lookups of one run.
MaxNameLookups == 4

\* Locales after normalize_locale.
Locales == {"en", "zh-CN"}

\* How the target of a refresh thread can go: the version and the name maps
\* are fetched, the requests fail and are caught, an exception leaves
\* _refresh_ddragon_locale_assets, or the version and the maps are all
\* served from their caches and nothing is requested.
RefreshOutcomes == {"fetched", "failed", "raised", "cached"}

\* Faulty variant: the mark is never seen.
InFlight_Never(locale) == FALSE

\* `locale in _REFRESH_IN_FLIGHT`
InFlight(locale) == locale \in REFRESH_IN_FLIGHT

\* The refresh threads started and not ended.
RunningRefreshes == {r \in RefreshThreads : refresh[r] \in {"running", "finally"}}

\* What the name lookups and the refresh leave alone.
outside_i18n == <<vars, route_vars, cache_vars, limiter_vars, knowledge_vars>>

I18nInit ==
    /\ LlmIdle
    /\ RouteIdle
    /\ CacheIdle
    /\ LimiterIdle
    /\ I18nIdle
    /\ KnowledgeIdle

\* champion_name / item_name up to the call of _schedule_locale_refresh:
\* another locale than zh-CN and a name found in the cached map return at
\* once.
NameLookup(t) ==
    /\ npc[t] = "idle"
    /\ name_lookups < MaxNameLookups
    /\ name_lookups' = name_lookups + 1
    /\ \E lang \in Locales :
         npc' = IF lang = "zh-CN" /\ ~names_cached
                THEN [npc EXCEPT ![t] = "schedule"]
                ELSE npc
    /\ UNCHANGED <<outside_i18n, REFRESH_IN_FLIGHT, refresh, refresh_raised, names_cached,
                   dd_requests>>

\* _schedule_locale_refresh, the block under _LOCK: return when the locale
\* is marked, else mark it.
ScheduleLocked(t) ==
    /\ npc[t] = "schedule"
    /\ IF InFlight("zh-CN")
       THEN /\ npc' = [npc EXCEPT ![t] = "idle"]
            /\ UNCHANGED REFRESH_IN_FLIGHT
       ELSE /\ \E r \in RefreshThreads : refresh[r] = "unstarted"
            /\ REFRESH_IN_FLIGHT' = REFRESH_IN_FLIGHT \cup {"zh-CN"}
            /\ npc' = [npc EXCEPT ![t] = "start"]
    /\ UNCHANGED <<outside_i18n, refresh, refresh_raised, names_cached, name_lookups,
                   dd_requests>>

\* _schedule_locale_refresh: threading.Thread(...).start()
ScheduleStart(t) ==
    /\ npc[t] = "start"
    /\ \E r \in RefreshThreads :
         /\ refresh[r] = "unstarted"
         /\ \A q \in RefreshThreads : q < r => refresh[q] # "unstarted"
         /\ refresh' = [refresh EXCEPT ![r] = "running"]
    /\ npc' = [npc EXCEPT ![t] = "idle"]
    /\ UNCHANGED <<outside_i18n, REFRESH_IN_FLIGHT, refresh_raised, names_cached,
                   name_lookups, dd_requests>>

\* _refresh_ddragon_locale_assets, the try block.
RefreshRun(r) ==
    /\ refresh[r] = "running"
    /\ refresh' = [refresh EXCEPT ![r] = "finally"]
    /\ \E how \in RefreshOutcomes :
         /\ dd_requests' = IF how = "cached" THEN dd_requests ELSE dd_requests + 1
         /\ names_cached' = (names_cached \/ how = "fetched")
         /\ refresh_raised' = [refresh_raised EXCEPT ![r] = (how = "raised")]
    /\ UNCHANGED <<outside_i18n, REFRESH_IN_FLIGHT, npc, name_lookups>>

\* _refresh_ddragon_locale_assets, the finally block.
RefreshFinally(r) ==
    /\ refresh[r] = "finally"
    /\ REFRESH_IN_FLIGHT' = REFRESH_IN_FLIGHT \ {"zh-CN"}
    /\ refresh' = [refresh EXCEPT ![r] = "ended"]
    /\ UNCHANGED <<outside_i18n, refresh_raised, npc, names_cached, name_lookups,
                   dd_requests>>

I18nNext ==
    \/ \E t \in Threads : NameLookup(t)
    \/ \E t \in Threads : ScheduleLocked(t)
    \/ \E t \in Threads : ScheduleStart(t)
    \/ \E r \in RefreshThreads : RefreshRun(r)
    \/ \E r \in RefreshThreads : RefreshFinally(r)

I18nSpec == I18nInit /\ [][I18nNext]_all_vars

(***************************************************************************)
(* llm: _build_knowledge_context and the lookups it makes                  *)
(***************************************************************************)
\* Bounds: clock advances and builds of one run, participants other than
\* the player.
MaxKnowTicks == 2
MaxBuilds == 2
MaxOthers == 2

\* `now + 6 * 3600` of _fetch_current_patch and _fetch_ddragon_data, the
\* same for an answer and for a failure.
PATCH_TTL_SECONDS == 6 * 3600

\* Seconds the clock can advance by in one step.
KnowDelays == {VERSION_FAILURE_TTL_SECONDS, PATCH_TTL_SECONDS}

\* What _build_rank_context reads from the analysis and the participants:
\* a ranked queue, a platform region, a summoner id of the player, a row of
\* the player among the participants.
RankInputs ==
    [ranked : BOOLEAN, region : BOOLEAN, summoner : BOOLEAN, has_player : BOOLEAN]

\* What requests.get(_DDRAGON_VERSIONS_URL) comes to in _fetch_current_patch:
\* the first version of the list, or '' (a RequestException, another status
\* than 200, a body that is not a non-empty list).
PatchAnswers == {[version |-> "26.3.1", ok |-> TRUE], [version |-> "", ok |-> FALSE]}

\* What the two requests of _fetch_ddragon_data come to: both bodies read,
\* a RequestException, a status other than 200, or a 200 whose JSON is not
\* an object (resp.json().get raises AttributeError, which is not caught).
ReferenceAnswers == {"ok", "transport", "status", "shape"}

\* What _choose_rank_entry(_fetch_rank_entries(...)) comes to for another
\* participant: no summoner_id, no entry (also: the lookup failed), an entry
\* within 120 of the player's score, an entry further away.
OtherAnswers == {"nosid", "none", "near", "far"}

\* The same for the player: an entry, none, or none because the call of the
\* League API failed.
PlayerAnswers == {"ranked", "none", "failed"}

RECURSIVE CountOf(_, _)
CountOf(answers, kinds) ==
    IF answers = <<>> THEN 0
    ELSE (IF Head(answers) \in kinds THEN 1 ELSE 0) + CountOf(Tail(answers), kinds)

\* _fetch_rank_entries: [] without a call when external knowledge is off.
RankEntry(answer) == IF external_enabled /\ answer # "failed" THEN answer ELSE "none"

\* _build_rank_context: the four early returns with their message, else the
\* available context; nearby_peers are the participants with an entry within
\* 120 of the player's score, the player's own row among them, and the
\* benchmark lines are built when a player row exists and nearby_peers has
\* two members or more.
RankContextOf(input, player_answer, others) ==
    IF ~input.ranked
    THEN [NoRank EXCEPT !.message = "Non-ranked queue: rank benchmark skipped."]
    ELSE IF ~input.region
    THEN [NoRank EXCEPT !.message = "Missing platform region for rank lookup."]
    ELSE IF ~input.summoner
    THEN [NoRank EXCEPT !.message = "Missing summoner ID for rank lookup."]
    ELSE IF RankEntry(player_answer) = "none"
    THEN [NoRank EXCEPT !.message = "Player rank not available from Riot League API."]
    ELSE LET nearby == CountOf(others, {"near"}) + (IF input.has_player THEN 1 ELSE 0)
         IN  [available |-> TRUE, message |-> "",
              benchmarks |-> (input.has_player /\ nearby >= 2), nearby |-> nearby]

\* The calls of the League API a rank context makes: one for the player and
\* one for every other participant with a summoner_id, once the early
\* returns are passed; none when external knowledge is off.
RankCalls(input, player_answer, others) ==
    IF ~external_enabled \/ ~input.ranked \/ ~input.region \/ ~input.summoner THEN 0
    ELSE IF player_answer # "ranked" THEN 1
    ELSE 1 + CountOf(others, {"none", "near", "far"})

\* What the build's steps leave alone.
outside_knowledge == <<vars, route_vars, cache_vars, limiter_vars>>

KnowledgeInit ==
    /\ LlmIdle
    /\ RouteIdle
    /\ CacheIdle
    /\ LimiterIdle
    /\ I18nIdle
    /\ external_enabled \in BOOLEAN
    /\ kpc = "idle"
    /\ know_now = 1
    /\ know_ticks = 0
    /\ PATCH_CACHE = [value |-> "", expires_at |-> 0]
    /\ DDRAGON_CACHE = [patch |-> "", expires_at |-> 0, loaded |-> FALSE]
    /\ kcalls = NoCalls
    /\ kfailed = {}
    /\ context = EmptyContext
    /\ prompt = ""
    /\ patch_log = <<>>
    /\ builds = 0

\* _build_prompt reaches `knowledge_context = _build_knowledge_context(...)`.
BuildStart ==
    /\ kpc \in {"idle", "done"}
    /\ builds < MaxBuilds
    /\ builds' = builds + 1
    /\ kcalls' = NoCalls
    /\ kfailed' = {}
    /\ context' = EmptyContext
    /\ prompt' = ""
    /\ kpc' = "patch"
    /\ UNCHANGED <<outside_knowledge, i18n_vars, external_enabled, know_now, know_ticks,
                   PATCH_CACHE, DDRAGON_CACHE, patch_log>>

\* _build_patch_context and _fetch_current_patch.
PatchStep ==
    /\ kpc = "patch"
    /\ kpc' = "ddragon"
    /\ IF ~external_enabled
       THEN /\ context' = [context EXCEPT !.patch = ""]
            /\ UNCHANGED <<PATCH_CACHE, kcalls, kfailed, patch_log>>
       ELSE IF PATCH_CACHE.expires_at > know_now
       THEN /\ context' = [context EXCEPT !.patch = PATCH_CACHE.value]
            /\ UNCHANGED <<PATCH_CACHE, kcalls, kfailed, patch_log>>
       ELSE \E answer \in PatchAnswers :
              /\ PATCH_CACHE' = [value |-> answer.version,
                                 expires_at |-> know_now + PATCH_TTL_SECONDS]
              /\ kcalls' = [kcalls EXCEPT !.version = @ + 1]
              /\ kfailed' = IF answer.ok THEN kfailed ELSE kfailed \cup {"version"}
              /\ patch_log' = Append(patch_log, [at |-> know_now, ok |-> answer.ok])
              /\ context' = [context EXCEPT !.patch = answer.version]
    /\ UNCHANGED <<outside_knowledge, i18n_vars, external_enabled, know_now,
                   know_ticks, DDRAGON_CACHE, prompt, builds>>

\* Faulty variant: a RequestException leaves _fetch_ddragon_data as well.
ReferenceRaises_Transport(answer) == answer \in {"shape", "transport"}

\* Whether an exception leaves _fetch_ddragon_data: only
\* requests.RequestException is caught.
ReferenceRaises(answer) == answer = "shape"

\* _fetch_ddragon_data(patch). An AttributeError leaves
\* _build_knowledge_context, and the except clause of _build_prompt is next.
DdragonStep ==
    /\ kpc = "ddragon"
    /\ IF context.patch = "" \/ ~external_enabled
       THEN /\ context' = [context EXCEPT !.reference = "empty"]
            /\ kpc' = "names"
            /\ UNCHANGED <<DDRAGON_CACHE, kcalls, kfailed>>
       ELSE IF DDRAGON_CACHE.patch = context.patch /\ DDRAGON_CACHE.expires_at > know_now
       THEN /\ context' = [context EXCEPT
                             !.reference = IF DDRAGON_CACHE.loaded THEN "loaded" ELSE "empty"]
            /\ kpc' = "names"
            /\ UNCHANGED <<DDRAGON_CACHE, kcalls, kfailed>>
       ELSE \E answer \in ReferenceAnswers :
              /\ kcalls' = [kcalls EXCEPT !.reference = @ + 1]
              /\ kfailed' = kfailed \cup (CASE answer = "ok" -> {}
                                            [] answer = "shape" -> {"shape"}
                                            [] OTHER -> {"reference"})
              /\ IF ReferenceRaises(answer)
                 THEN /\ kpc' = "prompt"
                      /\ UNCHANGED <<DDRAGON_CACHE, context>>
                 ELSE /\ DDRAGON_CACHE' = [patch |-> context.patch,
                                           expires_at |-> know_now + PATCH_TTL_SECONDS,
                                           loaded |-> (answer = "ok")]
                      /\ context' = [context EXCEPT
                                       !.reference = IF answer = "ok" THEN "loaded"
                                                     ELSE "empty"]
                      /\ kpc' = "names"
    /\ UNCHANGED <<outside_knowledge, i18n_vars, external_enabled, know_now,
                   know_ticks, PATCH_CACHE, prompt, patch_log, builds>>

\* _build_item_context and _build_relative_performance_context: item_name
\* and champion_name, which for zh-CN and a name missing from the cached maps
\* call _schedule_locale_refresh.
NamesStep ==
    /\ kpc = "names"
    /\ kpc' = "rank"
    /\ \E lang \in Locales, has_names \in BOOLEAN :
       IF has_names /\ lang = "zh-CN" /\ ~names_cached /\ ~InFlight("zh-CN")
          /\ \E r \in RefreshThreads : refresh[r] = "unstarted"
       THEN /\ REFRESH_IN_FLIGHT' = REFRESH_IN_FLIGHT \cup {"zh-CN"}
            /\ \E r \in RefreshThreads :
                 /\ refresh[r] = "unstarted"
                 /\ \A q \in RefreshThreads : q < r => refresh[q] # "unstarted"
                 /\ refresh' = [refresh EXCEPT ![r] = "running"]
       ELSE UNCHANGED <<REFRESH_IN_FLIGHT, refresh>>
    /\ UNCHANGED <<outside_knowledge, refresh_raised, npc, names_cached, name_lookups,
                   dd_requests, external_enabled, know_now, know_ticks,
                   PATCH_CACHE, DDRAGON_CACHE, kcalls, kfailed, context, prompt, patch_log,
                   builds>>

\* _build_rank_context, and the return of _build_knowledge_context.
RankStep ==
    /\ kpc = "rank"
    /\ kpc' = "prompt"
    /\ \E input \in RankInputs, player_answer \in PlayerAnswers,
          others \in [1..MaxOthers -> OtherAnswers] :
         /\ context' = [context EXCEPT !.rank = RankContextOf(input, player_answer, others),
                                        !.built = TRUE]
         /\ kcalls' = [kcalls EXCEPT !.rank = RankCalls(input, player_answer, others)]
         /\ kfailed' = IF RankCalls(input, player_answer, others) > 0
                           /\ player_answer = "failed"
                        THEN kfailed \cup {"rank"} ELSE kfailed
    /\ UNCHANGED <<outside_knowledge, i18n_vars, external_enabled, know_now,
                   know_ticks, PATCH_CACHE, DDRAGON_CACHE, prompt, patch_log, builds>>

\* _build_prompt: the try around _build_knowledge_context and the knowledge
\* section that follows.
PromptStep ==
    /\ kpc = "prompt"
    /\ kpc' = "done"
    /\ prompt' = IF context.built THEN "context" ELSE "unavailable"
    /\ UNCHANGED <<outside_knowledge, i18n_vars, external_enabled, know_now,
                   know_ticks, PATCH_CACHE, DDRAGON_CACHE, kcalls, kfailed, context,
                   patch_log, builds>>

\* Time passes between builds.
KnowTick ==
    /\ kpc \in {"idle", "done"}
    /\ know_ticks < MaxKnowTicks
    /\ know_ticks' = know_ticks + 1
    /\ \E d \in KnowDelays : know_now' = know_now + d
    /\ UNCHANGED <<outside_knowledge, i18n_vars, external_enabled, kpc,
                   PATCH_CACHE, DDRAGON_CACHE, kcalls, kfailed, context, prompt, patch_log,
                   builds>>

KnowledgeNext ==
    \/ BuildStart
    \/ PatchStep
    \/ DdragonStep
    \/ NamesStep
    \/ RankStep
    \/ PromptStep
    \/ KnowTick
    \/ \E r \in RefreshThreads : RefreshRun(r)
    \/ \E r \in RefreshThreads : RefreshFinally(r)

KnowledgeSpec == KnowledgeInit /\ [][KnowledgeNext]_all_vars

(***************************************************************************)
(* Properties                                                              *)
(***************************************************************************)
\* The response is a 5xx whose body matches the provider-crash signature.
IsCrash5xx(resp) ==
    resp.exc = "" /\ IsPromptTokens500Error(api_url, resp.status, resp.body)

\* The response is a 5xx without the crash signature.
IsPlain5xx(resp) ==
    resp.exc = "" /\ resp.status >= 500 /\ ~IsCrash5xx(resp)

\* A request is sent in this step.
Sends == n_sent' = n_sent + 1

LastVariantIndex == Len(BodyVariants) - 1

HasChunk == \E i \in DOMAIN events : events[i].type = "chunk"

IsTerminal(e) == e.type \in {"done", "error"}

RECURSIVE ChunkTexts(_)
ChunkTexts(evs) ==
    IF evs = <<>> THEN <<>>
    ELSE IF Head(evs).type = "chunk" THEN <<Head(evs).text>> \o ChunkTexts(Tail(evs))
    ELSE ChunkTexts(Tail(evs))

\* C1 as stated: after a 5xx with the crash signature, on any variant of the
\* list, the next request (if any) uses the next variant, never the same one.
C1_NeverResendsAfterCrash ==
    [][(IsCrash5xx(last_resp) /\ Sends)
         => last_sent' = [variant |-> last_sent.variant + 1, attempt |-> 0]]_vars

\* C1 amended: after a 5xx with the crash signature on a variant that is not
\* the last, the call goes on and its next request is the first attempt of
\* the next variant; on the last variant a request that follows is the next
\* attempt of that same variant.
C1_NextVariantUnlessLast ==
    [][IsCrash5xx(last_resp) =>
         IF last_sent.variant < LastVariantIndex
         THEN /\ pc = "post"
              /\ Sends => last_sent' = [variant |-> last_sent.variant + 1, attempt |-> 0]
         ELSE Sends => last_sent' = [variant |-> last_sent.variant,
                                     attempt |-> last_sent.attempt + 1]]_vars

\* C1 witness: the second variant was sent after a crash on the first, got
\* the crash signature again although retries remained, and the third
\* variant is about to be sent.
C1_Witness ==
    /\ pc = "post"
    /\ IsCrash5xx(last_resp)
    /\ last_sent = [variant |-> 1, attempt |-> 0]
    /\ retries >= 1
    /\ variant_index = 2
    /\ attempt = 0

\* C2 as stated: when the call ends because a variant kept failing
\* transiently, that variant was sent exactly LLM_RETRIES + 1 times, for
\* every configured LLM_RETRIES >= 0.
C2_SentRetriesPlusOneTimes ==
    (/\ pc = "done"
     /\ outcome = "error"
     /\ last_resp.exc # "" \/ IsPlain5xx(last_resp))
        => cur_sends = cfg_retries + 1

\* C3 as stated: a 5xx without the crash signature that has used up the
\* retries on a variant with a later variant after it moves the call to that
\* next variant.
C3_AdvancesWhenRetriesUsedUp ==
    (/\ IsPlain5xx(last_resp)
     /\ last_sent.attempt >= retries
     /\ last_sent.variant < LastVariantIndex)
        => pc = "post" /\ variant_index = last_sent.variant + 1

\* C3 amended: a 5xx without the crash signature never moves the call to
\* another variant: while attempts remain the same variant is retried, and
\* once they are used up the call ends with an error, whether or not a later
\* variant exists.
C3_Plain5xxNeverAdvances ==
    IsPlain5xx(last_resp) =>
        /\ variant_index = last_sent.variant
        /\ IF last_sent.attempt < retries
           THEN pc = "post" /\ attempt = last_sent.attempt + 1
           ELSE pc = "done" /\ outcome = "error" /\ ~ENABLED Next

\* C3 witness: a plain 5xx used up the retries on the second variant, later
\* variants exist, and the call has ended.
C3_Witness ==
    /\ IsPlain5xx(last_resp)
    /\ last_sent.variant = 1
    /\ last_sent.attempt = retries
    /\ last_sent.variant < LastVariantIndex
    /\ pc = "done"

\* C4: a response with a status below 500 other than 200 ends the call with
\* an error at once, and nothing more is sent.
C4_ClientErrorIsFatal ==
    (last_resp.exc = "" /\ last_resp.status \notin {0, 200} /\ last_resp.status < 500)
        => /\ pc = "done"
           /\ outcome = "error"
           /\ mode = "stream" => events[Len(events)].type = "error"
           /\ ~ENABLED Next

\* C4 witness: a 429 on the first attempt of the second variant, with
\* retries and variants left, ended the call.
C4_Witness ==
    /\ pc = "done"
    /\ last_resp.status = 429
    /\ last_sent = [variant |-> 1, attempt |-> 0]
    /\ retries >= 1
    /\ last_sent.variant < LastVariantIndex

\* C5: with LLM_API_KEY unset no completion request and no catalog request
\* is made, the call ends with the configuration error, and the streaming
\* call yields exactly one event, an error.
C5_NoNetworkWithoutKey ==
    ~api_key =>
        /\ n_sent = 0
        /\ catalog_requests = 0
        /\ pc \in {"start", "done"}
        /\ pc = "start" => ENABLED Begin
        /\ pc = "done" =>
             /\ outcome = "error"
             /\ error = "LLM_API_KEY is not set."
             /\ events = IF mode = "stream" THEN <<ErrorEvent("LLM_API_KEY is not set.")>>
                         ELSE <<>>

\* C5 witness: the streaming call ended without a key, with a URL and a
\* model for which the catalog would otherwise be consulted.
C5_Witness ==
    /\ ~api_key
    /\ pc = "done"
    /\ mode = "stream"
    /\ ConsultsCatalog(api_url, cfg_model)

\* A 200 answer to the synchronous call that is blank, not JSON, or without
\* the completion field.
IsMalformedOk(resp) ==
    /\ resp.exc = ""
    /\ resp.status = 200
    /\ resp.body \in {"blank", "non_json", "no_content", "choices_empty"}

\* C6 as stated: a 200 whose body is blank, not JSON, or without the
\* completion field ends the call with an error result at once, and nothing
\* more is sent.
C6_MalformedIsFatal ==
    IsMalformedOk(last_resp) =>
        /\ pc = "done"
        /\ outcome = "error"
        /\ ~ENABLED Next

\* C7 as stated: once a chunk event has been yielded, no further request is
\* sent.
C7_NoRequestAfterChunk == [][HasChunk => ~Sends]_vars

\* C8 as stated: a finished streaming call has yielded exactly one terminal
\* event, and at any time a terminal event is the last event.
C8_ExactlyOneTerminalLast ==
    mode = "stream" =>
        /\ \A i \in DOMAIN events : IsTerminal(events[i]) => i = Len(events)
        /\ (pc = "done" /\ outcome # "abandoned")
             => (events # <<>> /\ IsTerminal(events[Len(events)]))

\* C9 as stated: the text of the done event is the normalised concatenation
\* of the chunk deltas yielded during the call, in their order.
C9_DoneIsCleanedChunks ==
    (mode = "stream" /\ pc = "done" /\ outcome = "ok") =>
        events[Len(events)] = DoneEvent(SoftTextClean(Concat(ChunkTexts(events))))

\* C10 as stated: when a 200 stream ends, a done event is yielded if and only
\* if something was accumulated, and an error event otherwise.
C10_DoneIffAccumulated ==
    stream_end # "" =>
        IF collected # <<>>
        THEN events[Len(events)] = DoneEvent(SoftTextClean(Concat(collected)))
        ELSE events[Len(events)].type = "error"

\* C10 amended: when a 200 stream ends, by the [DONE] line or by the body
\* ending, a done event with the normalised accumulated text is yielded if
\* and only if that normalised text is not empty; otherwise an error event
\* is yielded and no done event.
C10_DoneIffCleanedNonEmpty ==
    stream_end # "" =>
        LET content == SoftTextClean(Concat(collected))
        IN  /\ pc = "done"
            /\ IF content # <<>>
               THEN events[Len(events)] = DoneEvent(content)
               ELSE /\ events[Len(events)].type = "error"
                    /\ \A i \in DOMAIN events : events[i].type # "done"

\* C10 witness: the body ended without a [DONE] line, with text accumulated,
\* and the done event carries it.
C10_Witness ==
    /\ stream_end = "closed"
    /\ Len(collected) = 2
    /\ events[Len(events)].type = "done"
    /\ events[Len(events)].text # Concat(collected)

\* C11: the streaming call holds a response open only while it reads its
\* body: at most one response is open at any time, none is open when a
\* request is about to be sent (after a retry or an advance to another
\* variant), and none is open when the call has ended, whether by its
\* terminal event, an uncaught exception or the consumer abandoning it.
C11_ResponsesClosed ==
    /\ open_responses \in {0, 1}
    /\ open_responses = 1 => (mode = "stream" /\ pc = "read")

\* C11 witness: the consumer abandoned the stream of a retried request after
\* a chunk, and no response is left open.
C11_Witness ==
    /\ outcome = "abandoned"
    /\ n_sent >= 2
    /\ HasChunk
    /\ open_responses = 0

\* What follows a request in the variant and retry loops when the loop body
\* decides d: the place of the next request, or the end of the call with the
\* error of d.
FollowsDecision(d) ==
    CASE d.act = "continue" ->
           /\ pc' = "post"
           /\ variant_index' = variant_index
           /\ attempt' = attempt + 1
      [] d.act = "break" ->
           /\ pc' = "post"
           /\ variant_index' = variant_index + 1
           /\ attempt' = 0
      [] OTHER ->
           /\ pc' = "done"
           /\ outcome' = "error"
           /\ error' = d.error

\* C12: while no chunk has been yielded, a request answered by anything but
\* a 200 (a 5xx with or without the crash signature, a timeout, a transport
\* error, a 401, 404 or other status) is followed in the streaming call by
\* what the synchronous call decides for that answer at the same variant and
\* attempt, and in the synchronous call by what the streaming call decides:
\* the same next (variant, attempt) or the same end with an error.
C12_StreamFollowsSync ==
    [][(Sends /\ ~HasChunk /\ (last_resp'.exc # "" \/ last_resp'.status # 200))
         => /\ last_sent' = [variant |-> variant_index, attempt |-> attempt]
            /\ FollowsDecision(IF mode = "stream" THEN SyncDecision(last_resp')
                                ELSE StreamDecision(last_resp'))]_vars

\* C12 witness: the streaming call, before any chunk, retried the first
\* variant, advanced to the second, retried it and ended with an error.
C12_Witness ==
    /\ mode = "stream"
    /\ ~HasChunk
    /\ n_sent >= 4
    /\ last_sent = [variant |-> 1, attempt |-> 1]
    /\ pc = "done"
    /\ outcome = "error"

IsTerminalLine(line) == line.type \in {"done", "stale", "error"}

\* C13 as stated: the lines of a stream are one meta line, then chunk lines,
\* then one terminal line (done, stale or error) once the stream is over,
\* and nothing follows a terminal line.
C13_MetaChunksTerminal ==
    (route = "stream" /\ rpc # "request") =>
        /\ ndjson # <<>>
        /\ ndjson[1].type = "meta"
        /\ \A i \in 2..Len(ndjson) :
             /\ ndjson[i].type \in {"chunk", "done", "stale", "error"}
             /\ IsTerminalLine(ndjson[i]) => i = Len(ndjson)
        /\ rpc = "closed" => IsTerminalLine(ndjson[Len(ndjson)])

\* The answer of a route to a generation that ended with an error: the JSON
\* body of api_ai_analysis, or the last line of the stream.
ErrorAnswer ==
    IF route = "sync" THEN http
    ELSE [status |-> ndjson[Len(ndjson)].status, kind |-> ndjson[Len(ndjson)].type,
          analysis |-> ndjson[Len(ndjson)].analysis, error |-> ndjson[Len(ndjson)].error]

\* A generation was run and ended with an error of the executor.
GenerationFailed ==
    /\ rpc = "closed"
    /\ IF route = "sync" THEN http.kind \in {"stale", "error"}
       ELSE /\ Len(ndjson) >= 2
            /\ ndjson[Len(ndjson)].type \in {"stale", "error"}

\* C14 as stated: when a generation ends with an error and a text is stored
\* for the match and the language, the answer is the stale result with the
\* stored text and the error, whatever force and focus are.
C14_StaleWhenStored ==
    (GenerationFailed /\ GetCachedAnalysis(match, language) # "") =>
        /\ ErrorAnswer.kind = "stale"
        /\ ErrorAnswer.analysis = GetCachedAnalysis(match, language)
        /\ ErrorAnswer.error # ""

\* C15 as stated: when the executor fails with the 401 or the 404 message and
\* nothing is stored, the error answer carries that status.
C15_AuthStatusPassthrough ==
    (GenerationFailed /\ ErrorAnswer.kind = "error") =>
        /\ ErrorAnswer.error = "Authentication failed (401)" => ErrorAnswer.status = 401
        /\ ErrorAnswer.error = "Endpoint not found (404)" => ErrorAnswer.status = 404

\* The place of a model in the fallback list (its first place).
FallbackPlace(m) ==
    LET fallback_models == <<OPENCODE_ZEN_DEFAULT_CHAT_MODEL>> \o OPENCODE_ZEN_CHAT_HINT_MODELS
    IN  CHOOSE i \in DOMAIN fallback_models :
          /\ fallback_models[i] = m
          /\ \A j \in 1..(i - 1) : fallback_models[j] # m

\* C16: once the settings are resolved, the variant list starts with the
\* base payload; for a URL that is not OpenCode Zen it is that payload alone;
\* for OpenCode Zen it goes on with the payload without temperature, then
\* the payload without temperature and max_tokens, then that minimal payload
\* with fallback models in the order of the fallback list; and no two
\* variants are equal.
C16_VariantOrder ==
    (pc # "start" /\ model # "") =>
        LET base    == BuildBaseRequestBody(model)
            no_temp == [base EXCEPT !.temperature = FALSE]
            minimal == [no_temp EXCEPT !.max_tokens = FALSE]
            v       == BodyVariants
        IN  /\ v[1] = base
            /\ ~IsOpencodeZenUrl(api_url) => v = <<base>>
            /\ IsOpencodeZenUrl(api_url) =>
                 /\ Len(v) >= 3
                 /\ v[2] = no_temp
                 /\ v[3] = minimal
                 /\ \A i \in 4..Len(v) :
                      /\ v[i].model \in {OPENCODE_ZEN_DEFAULT_CHAT_MODEL}
                                        \cup Range(OPENCODE_ZEN_CHAT_HINT_MODELS)
                      /\ v[i] = [minimal EXCEPT !.model = v[i].model]
                 /\ \A i, j \in 4..Len(v) :
                      i < j => FallbackPlace(v[i].model) < FallbackPlace(v[j].model)
            /\ \A i, j \in DOMAIN v : i # j => v[i] # v[j]

\* C16 witness: on OpenCode Zen with the default chat model, whose fallback
\* substitution equals the minimal payload, the last of the five variants
\* has been sent.
C16_Witness ==
    /\ IsOpencodeZenUrl(api_url)
    /\ model = OPENCODE_ZEN_DEFAULT_CHAT_MODEL
    /\ Len(BodyVariants) = 5
    /\ last_sent.variant = 4

\* The adapter rejects the configuration: an OpenCode Zen URL that does not
\* end with /chat/completions, or a model of a family served elsewhere.
AdapterRejects ==
    /\ api_key
    /\ cfg_model # ""
    /\ IsOpencodeZenUrl(api_url)
    /\ ~EndsWithChatCompletions(api_url) \/ HasResponsesPrefix(cfg_model)

\* C17: when the adapter rejects the configuration, the call ends with the
\* adapter's error (one error event in the streaming call) and no completion
\* request is ever sent.
C17_RejectedConfigSendsNothing ==
    AdapterRejects =>
        /\ n_sent = 0
        /\ pc \in {"start", "done"}
        /\ pc = "start" => ENABLED Begin
        /\ pc = "done" =>
             /\ outcome = "error"
             /\ error = IF ~EndsWithChatCompletions(api_url)
                        THEN "endpoint is not chat-completions compatible"
                        ELSE "model is not compatible with /chat/completions"
             /\ events = IF mode = "stream" THEN <<ErrorEvent(error)>> ELSE <<>>

\* C17 witness: a gpt- model on the OpenCode Zen chat-completions URL ended
\* the synchronous call.
C17_Witness ==
    /\ mode = "sync"
    /\ api_key
    /\ api_url = ZenChatUrl
    /\ cfg_model = "gpt-4o"
    /\ pc = "done"
    /\ n_sent = 0

\* The catalog was asked for and gave no model ids, as it does when it
\* cannot be reached.
CatalogGaveNothing == catalog_requests >= 1 /\ models_cache.models = {}

\* C18 as stated: when the catalog cannot be reached the call goes on to send
\* the completion request with the configured model.
C18_ProceedsWithConfiguredModel ==
    (CatalogGaveNothing /\ pc # "start") => model = cfg_model

\* C18 amended: when the catalog cannot be reached there is no settings
\* error: the call goes on to send the completion request, with the
\* configured model or, for the alias deepseek-chat, with the default chat
\* model.
C18_UnreachableCatalogFailsOpen ==
    (CatalogGaveNothing /\ pc # "start") =>
        /\ model = IF cfg_model = "deepseek-chat" THEN OPENCODE_ZEN_DEFAULT_CHAT_MODEL
                   ELSE cfg_model
        /\ BodyVariants[1].model = model
        /\ n_sent = 0 => (pc = "post" /\ outcome = "pending"
                          /\ ENABLED (SyncPost \/ StreamPost))

\* C18 witness: the catalog gave nothing for a model no list would name,
\* and a completion request was sent.
C18_Witness ==
    /\ CatalogGaveNothing
    /\ cfg_model = "test-model"
    /\ model = "test-model"
    /\ n_sent >= 1

\* The TTL a request's outcome puts on the local entry.
TtlOf(request) ==
    IF request.fetch_success THEN VERSION_SUCCESS_TTL_SECONDS
    ELSE VERSION_FAILURE_TTL_SECONDS

\* The last upstream request was a success and its TTL has not run out.
StoredWithinTtl ==
    /\ fetch_log # <<>>
    /\ fetch_log[Len(fetch_log)].fetch_success
    /\ now < fetch_log[Len(fetch_log)].at + VERSION_SUCCESS_TTL_SECONDS

\* Nothing is cached, or the TTL of the last request has run out in the
\* local tier and in the shared tier.
TtlExpired ==
    /\ fetch_log # <<>> => now >= fetch_log[Len(fetch_log)].at + TtlOf(fetch_log[Len(fetch_log)])
    /\ ~(app_context /\ shared_cache.expires_at > now)

\* C19: with lookups one after the other, a lookup within the TTL of a
\* successful store returns the stored version without a request; a lookup
\* after the TTL has run out goes on to one request; and two requests are
\* never closer than the TTL the earlier one set, so the lookups within the
\* new TTL make none.
C19_CachedWithinTtl ==
    /\ [](\A i \in 1..(Len(fetch_log) - 1) :
            fetch_log[i + 1].at >= fetch_log[i].at + TtlOf(fetch_log[i]))
    /\ [][\A t \in Threads :
            SequentialLookupStart(t) =>
              /\ StoredWithinTtl =>
                   /\ tpc'[t] = "idle"
                   /\ returned'[t] = fetch_log[Len(fetch_log)].version
                   /\ fetch_log' = fetch_log
              /\ TtlExpired => (tpc'[t] = "get" /\ fetch_log' = fetch_log)]_cache_all_vars

\* C19 witness: a first lookup fetched a version, a second was served from
\* the cache, and after the TTL a third fetched again.
C19_Witness ==
    /\ lookups = 3
    /\ Len(fetch_log) = 2
    /\ fetch_log[1].fetch_success
    /\ fetch_log[2].at >= fetch_log[1].at + VERSION_SUCCESS_TTL_SECONDS
    /\ \A t \in Threads : tpc[t] = "idle"
    /\ \E t \in Threads : returned[t] = fetch_log[2].version /\ returned[t] # ""

\* C20 as stated: with lookups from several threads, at most one upstream
\* request is made for a missing or expired entry: two requests are never
\* closer than the TTL the earlier one set.
C20_AtMostOneFetch ==
    \A i \in 1..(Len(fetch_log) - 1) :
        fetch_log[i + 1].at >= fetch_log[i].at + TtlOf(fetch_log[i])

\* C28: a call never sends more completion requests than the number of
\* payload variants times (retries + 1), retries being the retry count of
\* the call's settings: every request is a later attempt of the same variant
\* or the first attempt of the next variant, and no attempt exceeds retries.
C28_BoundedRequests ==
    /\ [](/\ n_sent <= Len(BodyVariants) * (retries + 1)
          /\ last_sent.attempt <= retries
          /\ last_sent.variant < Len(BodyVariants))
    /\ [][(Sends /\ n_sent > 0) =>
            \/ /\ last_sent'.variant = last_sent.variant
               /\ last_sent'.attempt = last_sent.attempt + 1
            \/ /\ last_sent'.variant = last_sent.variant + 1
               /\ last_sent'.attempt = 0]_vars

\* C28 witness: a call over several payload variants has ended after going
\* through more than one variant and using up the retries on the last one it
\* sent.
C28_Witness ==
    /\ pc = "done"
    /\ Len(BodyVariants) > 1
    /\ last_sent.variant >= 1
    /\ last_sent.attempt = retries
    /\ retries >= 1
    /\ n_sent >= 3

\* C26 as stated: a generation with a focus other than general leaves the
\* stored texts of the match as they were, and its answer reports
\* persisted = false.
C26_FocusLeavesStoredAnalysis ==
    /\ [][focus # "general" => match' = match]_all_vars
    /\ []((/\ focus # "general"
           /\ rpc = "closed"
           /\ \/ route = "sync" /\ http.kind = "fresh"
              \/ route = "stream" /\ ndjson[Len(ndjson)].type = "done")
             => ~ReportedPersisted)

\* The last line of the stream closes a generation that failed.
EndedWithFailure ==
    /\ route = "stream"
    /\ rpc = "closed"
    /\ Len(ndjson) >= 2
    /\ ndjson[Len(ndjson)].type \in {"error", "stale"}

\* C27 as stated: when the generation of the streaming route fails before
\* any chunk line was written, the route has called the synchronous
\* executor.
C27_StreamFallsBackToSync ==
    (EndedWithFailure /\ \A i \in DOMAIN ndjson : ndjson[i].type # "chunk")
        => sync_calls >= 1

\* The requests that obtained the version a lookup returned.
ObtainedBy(t) ==
    {i \in DOMAIN fetch_log :
        fetch_log[i].fetch_success /\ fetch_log[i].version = returned[t]}

\* The version a lookup returned was obtained less than the success TTL
\* before the lookup.
ServedWithinTtl(t) ==
    \E i \in ObtainedBy(t) : tnow[t] < fetch_log[i].got + VERSION_SUCCESS_TTL_SECONDS

\* A request failed and the lookup falls in its backoff window.
ServedDuringBackoff(t) ==
    \E j \in DOMAIN fetch_log :
        /\ ~fetch_log[j].fetch_success
        /\ fetch_log[j].at <= tnow[t]
        /\ tnow[t] < fetch_log[j].at + VERSION_FAILURE_TTL_SECONDS

\* C22 as stated: a version returned by a lookup was obtained from the
\* upstream less than the success TTL before.
C22_ServedWithinTtl ==
    \A t \in Threads :
        (tpc[t] = "idle" /\ returned[t] # "") => ServedWithinTtl(t)

\* C22 amended: a version returned by a lookup was obtained from the
\* upstream less than the success TTL before, or a request for the version
\* failed and the lookup falls in the backoff window of that failure, in
\* which the version obtained earlier is kept.
C22_ServedWithinTtlOrBackoff ==
    \A t \in Threads :
        (tpc[t] = "idle" /\ returned[t] # "") =>
            \/ ServedWithinTtl(t)
            \/ ObtainedBy(t) # {} /\ ServedDuringBackoff(t)

\* C22 witness: a version was obtained, its TTL ran out, the refresh failed,
\* and a lookup returned the version kept from before.
C22_Witness ==
    /\ Len(fetch_log) = 2
    /\ fetch_log[1].fetch_success
    /\ ~fetch_log[2].fetch_success
    /\ fetch_log[2].at >= fetch_log[1].got + VERSION_SUCCESS_TTL_SECONDS
    /\ \E t \in Threads :
         /\ tpc[t] = "idle"
         /\ returned[t] = fetch_log[1].version
         /\ tnow[t] >= fetch_log[2].at

\* C29 as stated: the acquisitions of one window that returned 0.0 are at
\* most `limit`, for acquisitions of several threads in any interleaving, and
\* every other acquisition returned a positive wait no longer than the rest
\* of its window.
C29_AtMostLimitPerWindow ==
    /\ \A b \in DOMAIN granted : granted[b] <= limit
    /\ \A t \in Threads :
         (apc[t] = "idle" /\ await[t] # -1 /\ acount[t] > limit) =>
             /\ await[t] > 0
             /\ anow[t] + await[t] <= (WindowBucket(anow[t], window_seconds) + 1) * window_seconds

\* The locale zh-CN carries the in-flight mark.
Marked == "zh-CN" \in REFRESH_IN_FLIGHT

\* C30: at most one refresh of the locale is in flight (marked and about to
\* be started, or started and not ended) at any time, for name lookups of
\* several threads in any interleaving; the locale is marked exactly while a
\* refresh is in flight; and when a refresh ends, by an exception or not,
\* the mark is cleared and the next lookup that misses marks the locale
\* again.
C30_OneRefreshInFlight ==
    /\ [](/\ Cardinality(RunningRefreshes)
               + Cardinality({t \in Threads : npc[t] = "start"}) <= 1
          /\ Marked <=>
               (RunningRefreshes # {} \/ \E t \in Threads : npc[t] = "start"))
    /\ [][\A r \in RefreshThreads : RefreshFinally(r) => ~Marked']_all_vars
    /\ [][\A t \in Threads :
            (ScheduleLocked(t) /\ ~Marked) => npc'[t] = "start"]_all_vars

\* C30 witness: a refresh ended by an exception, and a later lookup that
\* missed has started a second refresh, which is running.
C30_Witness ==
    /\ refresh[1] = "ended"
    /\ refresh_raised[1]
    /\ refresh[2] = "running"
    /\ Marked

\* C21 as stated, for the patch lookup of the knowledge context: a failed
\* version request is cached for a time strictly shorter than the TTL of a
\* version obtained, so that the entry of a failure runs out before an entry
\* stored at the same time with a version would.
C21_FailureBackoffShorter ==
    (patch_log # <<>> /\ ~patch_log[Len(patch_log)].ok) =>
        PATCH_CACHE.expires_at < patch_log[Len(patch_log)].at + PATCH_TTL_SECONDS

\* C23 as stated: with external knowledge off, neither a build nor anything
\* a build starts makes a remote call, and a build that is over has built
\* the context with an empty patch and empty reference data.
C23_DisabledMakesNoRemoteCall ==
    ~external_enabled =>
        /\ kcalls = NoCalls
        /\ dd_requests = 0
        /\ kpc = "done" =>
             (context.built /\ context.patch = "" /\ context.reference = "empty")

\* C24 as stated: benchmark lines are built only with two nearby peers or
\* more, and a rank context with fewer than two nearby peers is marked
\* unavailable and carries a reason.
C24_UnavailableWithReason ==
    (kpc = "done" /\ context.built) =>
        /\ context.rank.benchmarks => context.rank.nearby >= 2
        /\ context.rank.nearby < 2 =>
             (~context.rank.available /\ context.rank.message # "")

\* The rank sub-object was built: it is available or carries its reason.
RankBuilt == context.rank.available \/ context.rank.message # ""

\* C25 as stated: whatever lookup failed, a build that is over has built the
\* context: the sub-object of the failed lookup is empty and the rank
\* sub-object is there.
C25_AnyFailureDegradesOnlyItself ==
    (kpc = "done" /\ kfailed # {}) =>
        /\ prompt = "context"
        /\ context.built
        /\ RankBuilt

\* C25 amended: a lookup that fails by a RequestException or a status other
\* than 200 leaves its own sub-object empty (and a failed patch lookup the
\* reference data as well), the rank sub-object is still built and the
\* prompt carries the context; after a reference body of unexpected shape
\* the prompt is still written, with the knowledge context unavailable.
C25_TransportFailureDegrades ==
    kpc = "done" =>
        /\ prompt # ""
        /\ "shape" \in kfailed => prompt = "unavailable"
        /\ "shape" \notin kfailed =>
             /\ prompt = "context"
             /\ context.built
             /\ RankBuilt
             /\ "version" \in kfailed =>
                  (context.patch = "" /\ context.reference = "empty")
             /\ "reference" \in kfailed => context.reference = "empty"
             /\ "rank" \in kfailed => ~context.rank.available

\* C25 witness: the reference requests of a build failed, and the build
\* ended with the patch it had obtained and an available rank context.
C25_Witness ==
    /\ kpc = "done"
    /\ "reference" \in kfailed
    /\ context.built
    /\ context.patch # ""
    /\ context.reference = "empty"
    /\ context.rank.available
    /\ prompt = "context"

====
